---- MODULE Spec2Model ----
(***************************************************************************)
(* Clinic backend: appointment lifecycle, subscriber and blog creation,    *)
(* and the paginated list endpoints, modelled from the route handlers and  *)
(* the Mongoose schemas.                                                   *)
(*                                                                         *)
(* Time is an integer count of clock units since the epoch (UTC).  A day   *)
(* has DayLen units.  The server's time zone is an offset in units.        *)
(* Optional values are <<>> (undefined) or <<v>>.                          *)
(***************************************************************************)
EXTENDS Integers, Sequences, FiniteSets, TLC

VARIABLES
    now,            \* the server clock (new Date())
    tz,             \* the server's time-zone offset, fixed at start-up
    env,            \* process.env: the transport credentials
    emailEnabled,   \* EmailService.enabled
    appointments,   \* the Appointment collection: id -> document
    nextId,         \* ids handed out so far (ids are never reused)
    served,         \* number of requests answered so far
    res,            \* the last response: operation, HTTP status, id
    log,            \* what the last handler did, in order: saves and sends
    contacts,       \* the Contact collection: sequence of documents
    subscribers,    \* the Subscriber collection: sequence of documents
    blogs,          \* the Blog collection: id -> document
    listRes,        \* the last list response
    inflight,       \* the requests between their read and their write
    db              \* the DatabaseService, its connection and the process

vars == <<now, tz, env, emailEnabled, db, appointments, nextId, served, res, log,
          contacts, subscribers, blogs, listRes, inflight, db>>

otherVars == <<contacts, subscribers, blogs, listRes>>

----------------------------------------------------------------------------
(* Bounds of the model *)

DayLen == 2
MaxNow == 3
MaxAppts == 1
MaxReqs == 4
MaxBlogs == 2
MaxDocs == 3

TZOffsets == {-1, 0, 1}

----------------------------------------------------------------------------
(* Optional values *)

None == <<>>
Some(v) == <<v>>
IsSet(o) == o # <<>>
Val(o) == o[1]

(* a || b on optional values whose set values are all truthy *)
OrElse(a, b) == IF IsSet(a) THEN a ELSE b

----------------------------------------------------------------------------
(* Dates.  An ISO 8601 input is a date-only string (parsed as UTC          *)
(* midnight), a date-time string with Z (an instant), or no ISO string.    *)

Undefined == "undefined"

DateOnly(d) == [k |-> "date", v |-> d]
DateTime(t) == [k |-> "datetime", v |-> t]
BadDate == [k |-> "garbage", v |-> 0]
NoDate == [k |-> Undefined, v |-> 0]

isISO8601(x) == x.k \in {"date", "datetime"}

(* new Date(value) for an ISO string *)
NewDate(x) == IF x.k = "date" THEN x.v * DayLen ELSE x.v

(* variant: midnight taken in UTC (setUTCHours) instead of local time *)
LocalMidnightUTC(t, z) == (t \div DayLen) * DayLen

(* const today = new Date(); today.setHours(0, 0, 0, 0) *)
LocalMidnight(t, z) == ((t + z) \div DayLen) * DayLen - z

(* the server-local calendar day of an instant *)
LocalDay(t, z) == (t + z) \div DayLen

----------------------------------------------------------------------------
(* Text.  A text value is its trimmed length (core) and the number of      *)
(* surrounding whitespace characters (pad); only lengths are validated.    *)

Txt(pad, core) == [pad |-> pad, core |-> core]
trim(t) == [pad |-> 0, core |-> t.core]
Length(t) == t.pad + t.core
isLength(t, min, max) == Length(t) >= min /\ Length(t) <= max

NameMin == 2
NameMax == 100
PhoneMin == 10
PhoneMax == 20
MessageMax == 1000
NotesMax == 1000
AssignedToMax == 100
CancelledReasonMax == 500
SubjectMin == 5
SubjectMax == 200
ContactMessageMin == 10
ContactMessageMax == 2000
DurationMin == 15
DurationMax == 480
DurationDefault == 60

----------------------------------------------------------------------------
(* Enumerations of the appointment routes and schema *)

validTreatmentTypes ==
    {"Acne Treatment", "Anti-Aging Treatment", "Chemical Peels",
     "Pigmentation Treatment", "Hair Transplant", "PRP Hair Therapy",
     "Hair Loss Treatment", "Scalp Treatment", "Laser Hair Removal",
     "Laser Skin Resurfacing", "Laser Tattoo Removal",
     "Laser Pigmentation Removal", "General Consultation"}

validTimeSlots ==
    {"9:00 AM", "10:00 AM", "11:00 AM", "12:00 PM", "2:00 PM", "3:00 PM",
     "4:00 PM", "5:00 PM", "6:00 PM"}

Statuses == {"pending", "confirmed", "cancelled", "completed", "no-show"}
Priorities == {"low", "medium", "high"}

(* Sample e-mail and phone strings with the verdict of each pattern on     *)
(* them: isEmail() of the routes; the match patterns of the schemas (no    *)
(* '+' in the local part; top-level labels of 2 or 3 word characters in    *)
(* the Appointment schema, of 2 or more in the Subscriber schema); the     *)
(* phone pattern of route and schema, and the phone's length.              *)
EmailSamples ==
    {"ann@example.com", "Ann@Example.com", "bob@clinic.info",
     "ann+skin@example.com", "not-an-email"}
isEmail(e) ==
    e \in {"ann@example.com", "Ann@Example.com", "bob@clinic.info",
           "ann+skin@example.com"}

(* normalizeEmail(): lower case; nothing else changes on these domains *)
normalizeEmail(e) == IF e = "Ann@Example.com" THEN "ann@example.com" ELSE e

(* lowercase: true of the schemas' email paths *)
lowercase(e) == IF e = "Ann@Example.com" THEN "ann@example.com" ELSE e

AppointmentEmailMatch(e) == e \in {"ann@example.com", "Ann@Example.com"}
SubscriberEmailMatch(e) ==
    e \in {"ann@example.com", "Ann@Example.com", "bob@clinic.info"}
SourceMax == 50

PhoneSamples == {"+91 98765 43210", "12345", "call me"}
PhoneMatch(p) == p \in {"+91 98765 43210", "12345"}
PhoneLength(p) ==
    CASE p = "+91 98765 43210" -> 15
      [] p = "12345" -> 5
      [] OTHER -> 7

----------------------------------------------------------------------------
(* Request validation of the appointment routes (express-validator).       *)
(* Each operator yields the set of parameters that have an error.          *)

(* variant: the route has no .custom() check of the date *)
DateNotPastUnchecked(x, t, z) == TRUE

(* .custom() of preferredDate: selectedDate < today throws *)
DateNotPast(x, t, z) == ~(NewDate(x) < LocalMidnight(t, z))

appointmentValidation(b, t, z) ==
    {f \in {"name"} : ~isLength(trim(b.name), NameMin, NameMax)}
    \cup {f \in {"email"} : ~isEmail(b.email)}
    \cup {f \in {"phone"} :
            ~(PhoneMatch(b.phone)
              /\ PhoneLength(b.phone) >= PhoneMin
              /\ PhoneLength(b.phone) <= PhoneMax)}
    \cup {f \in {"treatmentType"} : b.treatmentType \notin validTreatmentTypes}
    \cup {f \in {"preferredDate"} :
            ~isISO8601(b.preferredDate)
            \/ (isISO8601(b.preferredDate) /\ ~DateNotPast(b.preferredDate, t, z))}
    \cup {f \in {"preferredTime"} : b.preferredTime \notin validTimeSlots}
    \cup {f \in {"message"} :
            IsSet(b.message) /\ ~isLength(trim(Val(b.message)), 0, MessageMax)}

appointmentUpdateValidation(b) ==
    {f \in {"status"} : b.status # Undefined /\ b.status \notin Statuses}
    \cup {f \in {"priority"} : b.priority # Undefined /\ b.priority \notin Priorities}
    \cup {f \in {"confirmedDate"} :
            b.confirmedDate.k # Undefined /\ ~isISO8601(b.confirmedDate)}
    \cup {f \in {"confirmedTime"} :
            b.confirmedTime # Undefined /\ b.confirmedTime \notin validTimeSlots}
    \cup {f \in {"duration"} :
            IsSet(b.duration)
            /\ ~(Val(b.duration) >= DurationMin /\ Val(b.duration) <= DurationMax)}
    \cup {f \in {"notes"} :
            IsSet(b.notes) /\ ~isLength(trim(Val(b.notes)), 0, NotesMax)}
    \cup {f \in {"assignedTo"} :
            IsSet(b.assignedTo) /\ ~isLength(trim(Val(b.assignedTo)), 0, AssignedToMax)}
    \cup {f \in {"tags"} : b.tags.k \notin {Undefined, "array"}}
    \cup {f \in {"cancelledReason"} :
            IsSet(b.cancelledReason)
            /\ ~isLength(trim(Val(b.cancelledReason)), 0, CancelledReasonMax)}

confirmValidation(b) ==
    {f \in {"confirmedDate"} :
            b.confirmedDate.k # Undefined /\ ~isISO8601(b.confirmedDate)}
    \cup {f \in {"confirmedTime"} :
            b.confirmedTime # Undefined /\ b.confirmedTime \notin validTimeSlots}
    \cup {f \in {"notes"} :
            IsSet(b.notes) /\ ~isLength(trim(Val(b.notes)), 0, NotesMax)}

----------------------------------------------------------------------------
(* The Appointment schema: the document a handler builds, the validators   *)
(* that run on every save(), and the pre-save hook.                        *)

(* new Appointment({...}) in router.post('/'), with the schema defaults *)
NewAppointment(b) ==
    [name |-> trim(b.name),
     email |-> lowercase(normalizeEmail(b.email)),
     phone |-> b.phone,
     treatmentType |-> b.treatmentType,
     preferredDate |-> NewDate(b.preferredDate),
     preferredTime |-> b.preferredTime,
     message |-> IF IsSet(b.message) THEN Some(trim(Val(b.message))) ELSE None,
     status |-> "pending",
     priority |-> "medium",
     confirmedDate |-> None,
     confirmedTime |-> None,
     actualDate |-> None,
     actualTime |-> None,
     duration |-> DurationDefault,
     notes |-> None,
     assignedTo |-> None,
     tags |-> {},
     reminderSent |-> FALSE,
     cancelledAt |-> None,
     cancelledReason |-> None,
     createdAt |-> None]

(* the validator of preferredDate: value >= today *)
PreferredDateValidator(value, t, z) == value >= LocalMidnight(t, z)

(* validateBeforeSave: the schema validators of the document's paths *)
AppointmentSchemaErrors(doc, t, z) ==
    {f \in {"name"} : ~isLength(doc.name, NameMin, NameMax)}
    \cup {f \in {"email"} : ~AppointmentEmailMatch(doc.email)}
    \cup {f \in {"phone"} : ~PhoneMatch(doc.phone)}
    \cup {f \in {"treatmentType"} : doc.treatmentType \notin validTreatmentTypes}
    \cup {f \in {"preferredDate"} : ~PreferredDateValidator(doc.preferredDate, t, z)}
    \cup {f \in {"preferredTime"} : doc.preferredTime \notin validTimeSlots}
    \cup {f \in {"message"} :
            IsSet(doc.message) /\ Length(Val(doc.message)) > MessageMax}
    \cup {f \in {"status"} : doc.status \notin Statuses}
    \cup {f \in {"priority"} : doc.priority \notin Priorities}
    \cup {f \in {"duration"} :
            doc.duration < DurationMin \/ doc.duration > DurationMax}
    \cup {f \in {"notes"} : IsSet(doc.notes) /\ Length(Val(doc.notes)) > NotesMax}
    \cup {f \in {"cancelledReason"} :
            IsSet(doc.cancelledReason)
            /\ Length(Val(doc.cancelledReason)) > CancelledReasonMax}

(* variant: the hook overwrites a confirmed slot that is already set *)
AutoConfirmAlways(doc, statusModified) ==
    IF statusModified /\ doc.status = "confirmed"
    THEN [doc EXCEPT !.confirmedDate = Some(doc.preferredDate),
                     !.confirmedTime = Some(doc.preferredTime)]
    ELSE doc

(* pre('save'): auto-set confirmedDate when status changes to confirmed *)
AutoConfirm(doc, statusModified) ==
    IF statusModified /\ doc.status = "confirmed" /\ ~IsSet(doc.confirmedDate)
    THEN [doc EXCEPT !.confirmedDate = Some(doc.preferredDate),
                     !.confirmedTime = Some(doc.preferredTime)]
    ELSE doc

(* variant: the hook stamps cancelledAt on every change to cancelled *)
AutoCancelAlways(doc, statusModified, t) ==
    IF statusModified /\ doc.status = "cancelled"
    THEN [doc EXCEPT !.cancelledAt = Some(t)]
    ELSE doc

(* pre('save'): auto-set cancelledAt when status changes to cancelled *)
AutoCancel(doc, statusModified, t) ==
    IF statusModified /\ doc.status = "cancelled" /\ ~IsSet(doc.cancelledAt)
    THEN [doc EXCEPT !.cancelledAt = Some(t)]
    ELSE doc

(* variant: the hook copies the preferred slot, not the confirmed one *)
AutoCompletePreferred(doc, statusModified) ==
    IF statusModified /\ doc.status = "completed" /\ ~IsSet(doc.actualDate)
    THEN [doc EXCEPT !.actualDate = Some(doc.preferredDate),
                     !.actualTime = Some(doc.preferredTime)]
    ELSE doc

(* variant: one test of confirmedDate decides the source of both fields *)
AutoCompleteJoint(doc, statusModified) ==
    IF statusModified /\ doc.status = "completed" /\ ~IsSet(doc.actualDate)
    THEN IF IsSet(doc.confirmedDate)
         THEN [doc EXCEPT !.actualDate = doc.confirmedDate,
                          !.actualTime = doc.confirmedTime]
         ELSE [doc EXCEPT !.actualDate = Some(doc.preferredDate),
                          !.actualTime = Some(doc.preferredTime)]
    ELSE doc

(* pre('save'): auto-set actualDate when status changes to completed *)
AutoComplete(doc, statusModified) ==
    IF statusModified /\ doc.status = "completed" /\ ~IsSet(doc.actualDate)
    THEN [doc EXCEPT
            !.actualDate = OrElse(doc.confirmedDate, Some(doc.preferredDate)),
            !.actualTime = OrElse(doc.confirmedTime, Some(doc.preferredTime))]
    ELSE doc

preSave(doc, statusModified, t) ==
    AutoComplete(AutoCancel(AutoConfirm(doc, statusModified), statusModified, t),
                 statusModified)

----------------------------------------------------------------------------
(* The notification sender and the error handler *)

(* process.env as the constructor reads it *)
Falsy(v) == v \in {Undefined, ""}
Configured == [EMAIL_USER |-> "clinic@example.com", EMAIL_PASS |-> "app-password"]
NotConfigured == [EMAIL_USER |-> Undefined, EMAIL_PASS |-> Undefined]
EnvSamples ==
    {[EMAIL_USER |-> u, EMAIL_PASS |-> p] :
        u \in {Undefined, "", "clinic@example.com"}, p \in {Undefined, "app-password"}}

(* EmailService.constructor: disabled when !user || !pass, else enabled;   *)
(* nothing assigns the flag afterwards (verifyConnection only logs) *)
EmailServiceEnabled(e) == ~(Falsy(e.EMAIL_USER) \/ Falsy(e.EMAIL_PASS))

(* variant: the send methods do not test the flag *)
SendOutcomesUnguarded(enabled) == {"sent", "failed"}

(* a send method: returns without sending when the service is disabled,    *)
(* otherwise awaits transporter.sendMail, which resolves or rejects        *)
SendOutcomes(enabled) == IF enabled THEN {"sent", "failed"} ELSE {"skipped"}

(* what a handler did: a hook that fired, a save, a send attempt *)
Ev(e, a, o) == [ev |-> e, arg |-> a, out |-> o]
Saved == Ev("save", "", "")
SendEv(what, o) == Ev("send", what, o)

(* the status of the response to an error a handler throws: the           *)
(* statusCode given to createError, 500 for any other error               *)
UnhandledStatus == 500

Response(op, code, id) == [op |-> op, code |-> code, id |-> id]
NoId == 0

----------------------------------------------------------------------------
(* POST /api/appointment *)

(* variant: the sends share the handler's control flow, as in contact      *)
(* Create: a failed send ends the handler                                  *)
AppointmentCreateSendsUnisolated(o1, o2) ==
    [log |-> IF o1 = "failed"
             THEN <<SendEv("ack", o1)>>
             ELSE <<SendEv("ack", o1), SendEv("admin", o2)>>,
     threw |-> o1 = "failed" \/ o2 = "failed"]

(* the two sends after appointment.save(), each in its own try/catch:      *)
(* the sends attempted, and whether an error leaves the handler            *)
AppointmentCreateSends(o1, o2) ==
    [log |-> <<SendEv("ack", o1), SendEv("admin", o2)>>, threw |-> FALSE]

(* what a save() of the document does before it writes: whether           *)
(* isModified('status') holds, and the branches of the hook that fire      *)
HookEvents(doc, statusModified, t) ==
    (IF statusModified THEN <<Ev("modified", "status", "")>> ELSE <<>>)
    \o (IF AutoConfirm(doc, statusModified) # doc
       THEN <<Ev("hook", "confirmed", "")>> ELSE <<>>)
    \o (IF AutoCancel(AutoConfirm(doc, statusModified), statusModified, t)
            # AutoConfirm(doc, statusModified)
       THEN <<Ev("hook", "cancelled", "")>> ELSE <<>>)
    \o (IF preSave(doc, statusModified, t)
            # AutoCancel(AutoConfirm(doc, statusModified), statusModified, t)
       THEN <<Ev("hook", "completed", "")>> ELSE <<>>)

(* cap: the number of ids the model lets the store issue *)
CreateAppointmentUpTo(b, cap) ==
    LET errors == appointmentValidation(b, now, tz)
        appointment == NewAppointment(b)
        invalid == AppointmentSchemaErrors(appointment, now, tz)
        id == nextId + 1
    IN  /\ served < MaxReqs
        /\ served' = served + 1
        /\ UNCHANGED <<now, tz, env, emailEnabled, db, inflight>>
        /\ IF errors # {}
           THEN /\ res' = Response("create", 400, NoId)
                /\ log' = <<>>
                /\ UNCHANGED <<appointments, nextId>>
           ELSE IF invalid # {}
           THEN \* save() rejects with a ValidationError
                /\ res' = Response("create", UnhandledStatus, NoId)
                /\ log' = <<>>
                /\ UNCHANGED <<appointments, nextId>>
           ELSE /\ nextId < cap
                /\ nextId' = id
                /\ appointments' =
                      [j \in DOMAIN appointments \cup {id} |->
                         IF j = id
                         THEN [preSave(appointment, TRUE, now)
                                 EXCEPT !.createdAt = Some(now)]
                         ELSE appointments[j]]
                /\ \E o1, o2 \in SendOutcomes(emailEnabled) :
                      /\ log' = HookEvents(appointment, TRUE, now) \o <<Saved>> \o AppointmentCreateSends(o1, o2).log
                      /\ res' = IF AppointmentCreateSends(o1, o2).threw
                                THEN Response("create", UnhandledStatus, id)
                                ELSE Response("create", 201, id)

CreateAppointment(b) == CreateAppointmentUpTo(b, MaxAppts)

----------------------------------------------------------------------------
(* GET /api/appointment/:id *)

(* variant: an absent id is answered with 200 and no data *)
GetAppointmentLenient(i) ==
    /\ served < MaxReqs
    /\ served' = served + 1
    /\ UNCHANGED <<now, tz, env, emailEnabled, db, inflight, appointments, nextId>>
    /\ log' = <<>>
    /\ res' = Response("get", 200, i)

GetAppointment(i) ==
    /\ served < MaxReqs
    /\ served' = served + 1
    /\ UNCHANGED <<now, tz, env, emailEnabled, db, inflight, appointments, nextId>>
    /\ log' = <<>>
    /\ IF i \notin DOMAIN appointments
       THEN res' = Response("get", 404, i)
       ELSE res' = Response("get", 200, i)

----------------------------------------------------------------------------
(* GET /api/appointment/stats/summary *)

(* $sum of $cond over the collection: the documents whose field has the value *)
SumCond(docs, field, value) ==
    Cardinality({i \in DOMAIN docs : docs[i][field] = value})

(* variant: the noShow accumulator compares with a key the schema never stores *)
AggregateNoShowKey(docs) ==
    IF DOMAIN docs = {} THEN <<>>
    ELSE <<[total |-> Cardinality(DOMAIN docs),
            pending |-> SumCond(docs, "status", "pending"),
            confirmed |-> SumCond(docs, "status", "confirmed"),
            cancelled |-> SumCond(docs, "status", "cancelled"),
            completed |-> SumCond(docs, "status", "completed"),
            noShow |-> SumCond(docs, "status", "noShow"),
            highPriority |-> SumCond(docs, "priority", "high"),
            mediumPriority |-> SumCond(docs, "priority", "medium"),
            lowPriority |-> SumCond(docs, "priority", "low")]>>

(* Appointment.aggregate([{$group: {_id: null, ...}}]): no group on an      *)
(* empty collection, else one group with the nine accumulators *)
Aggregate(docs) ==
    IF DOMAIN docs = {} THEN <<>>
    ELSE <<[total |-> Cardinality(DOMAIN docs),
            pending |-> SumCond(docs, "status", "pending"),
            confirmed |-> SumCond(docs, "status", "confirmed"),
            cancelled |-> SumCond(docs, "status", "cancelled"),
            completed |-> SumCond(docs, "status", "completed"),
            noShow |-> SumCond(docs, "status", "no-show"),
            highPriority |-> SumCond(docs, "priority", "high"),
            mediumPriority |-> SumCond(docs, "priority", "medium"),
            lowPriority |-> SumCond(docs, "priority", "low")]>>

(* stats[0] || {...} *)
EmptyStats ==
    [total |-> 0, pending |-> 0, confirmed |-> 0, cancelled |-> 0, completed |-> 0,
     noShow |-> 0, highPriority |-> 0, mediumPriority |-> 0, lowPriority |-> 0]

StatsResponse(result) ==
    [op |-> "stats", code |-> 200, id |-> NoId, data |-> result]

GetStats ==
    LET stats == Aggregate(appointments)
        result == IF stats # <<>> THEN stats[1] ELSE EmptyStats
    IN  /\ served < MaxReqs
        /\ served' = served + 1
        /\ UNCHANGED <<now, tz, env, emailEnabled, db, inflight, appointments, nextId>>
        /\ log' = <<>>
        /\ res' = StatsResponse(result)

----------------------------------------------------------------------------
(* PUT /api/appointment/:id *)

(* variant: every field the body defines is copied, allow-listed or not *)
AssignAny(doc, b) ==
    [doc EXCEPT
       !.status = IF b.status # Undefined THEN b.status ELSE @,
       !.priority = IF b.priority # Undefined THEN b.priority ELSE @,
       !.confirmedDate =
           IF b.confirmedDate.k # Undefined THEN Some(NewDate(b.confirmedDate)) ELSE @,
       !.confirmedTime =
           IF b.confirmedTime # Undefined THEN Some(b.confirmedTime) ELSE @,
       !.duration = IF IsSet(b.duration) THEN Val(b.duration) ELSE @,
       !.notes = IF IsSet(b.notes) THEN Some(trim(Val(b.notes))) ELSE @,
       !.assignedTo = IF IsSet(b.assignedTo) THEN Some(trim(Val(b.assignedTo))) ELSE @,
       !.tags = IF b.tags.k # Undefined THEN b.tags.v ELSE @,
       !.cancelledReason =
           IF IsSet(b.cancelledReason) THEN Some(trim(Val(b.cancelledReason))) ELSE @,
       !.name = IF IsSet(b.name) THEN trim(Val(b.name)) ELSE @,
       !.email = IF b.email # Undefined THEN lowercase(b.email) ELSE @,
       !.phone = IF b.phone # Undefined THEN b.phone ELSE @,
       !.treatmentType = IF b.treatmentType # Undefined THEN b.treatmentType ELSE @,
       !.preferredDate =
           IF b.preferredDate.k # Undefined THEN NewDate(b.preferredDate) ELSE @,
       !.preferredTime = IF b.preferredTime # Undefined THEN b.preferredTime ELSE @,
       !.message = IF IsSet(b.message) THEN Some(trim(Val(b.message))) ELSE @,
       !.reminderSent = IF IsSet(b.reminderSent) THEN Val(b.reminderSent) ELSE @]

(* allowedUpdates.forEach: copy each allow-listed field the body defines;  *)
(* the body's other keys are never read *)
AssignAllowed(doc, b) ==
    [doc EXCEPT
       !.status = IF b.status # Undefined THEN b.status ELSE @,
       !.priority = IF b.priority # Undefined THEN b.priority ELSE @,
       !.confirmedDate =
           IF b.confirmedDate.k # Undefined THEN Some(NewDate(b.confirmedDate)) ELSE @,
       !.confirmedTime =
           IF b.confirmedTime # Undefined THEN Some(b.confirmedTime) ELSE @,
       !.duration = IF IsSet(b.duration) THEN Val(b.duration) ELSE @,
       !.notes = IF IsSet(b.notes) THEN Some(trim(Val(b.notes))) ELSE @,
       !.assignedTo = IF IsSet(b.assignedTo) THEN Some(trim(Val(b.assignedTo))) ELSE @,
       !.tags = IF b.tags.k # Undefined THEN b.tags.v ELSE @,
       !.cancelledReason =
           IF IsSet(b.cancelledReason) THEN Some(trim(Val(b.cancelledReason))) ELSE @]

UpdateAppointment(i, b) ==
    LET errors == appointmentUpdateValidation(b)
        appointment == AssignAllowed(appointments[i], b)
        statusModified == appointment.status # appointments[i].status
        invalid == AppointmentSchemaErrors(appointment, now, tz)
    IN  /\ served < MaxReqs
        /\ served' = served + 1
        /\ UNCHANGED <<now, tz, env, emailEnabled, db, inflight, nextId>>
        /\ IF errors # {}
           THEN /\ res' = Response("update", 400, i)
                /\ log' = <<>>
                /\ UNCHANGED appointments
           ELSE IF i \notin DOMAIN appointments
           THEN /\ res' = Response("update", 404, i)
                /\ log' = <<>>
                /\ UNCHANGED appointments
           ELSE IF invalid # {}
           THEN \* save() rejects with a ValidationError
                /\ res' = Response("update", UnhandledStatus, i)
                /\ log' = <<>>
                /\ UNCHANGED appointments
           ELSE /\ appointments' =
                      [appointments EXCEPT ![i] = preSave(appointment, statusModified, now)]
                /\ log' = HookEvents(appointment, statusModified, now) \o <<Saved>>
                /\ res' = Response("update", 200, i)

----------------------------------------------------------------------------
(* POST /api/appointment/:id/confirm *)

ConfirmAssign(doc, b) ==
    [doc EXCEPT
       !.status = "confirmed",
       !.confirmedDate =
           IF b.confirmedDate.k # Undefined THEN Some(NewDate(b.confirmedDate)) ELSE @,
       !.confirmedTime =
           IF b.confirmedTime # Undefined THEN Some(b.confirmedTime) ELSE @,
       !.notes =
           IF IsSet(b.notes) /\ trim(Val(b.notes)).core > 0
           THEN Some(trim(Val(b.notes))) ELSE @]

(* variant: the send is wrapped in a try/catch that logs the failure *)
ConfirmSendCaught(o) ==
    [log |-> <<SendEv("confirmation", o)>>, threw |-> FALSE]

(* await emailService.sendAppointmentConfirmation(...) after save(),       *)
(* outside any try/catch                                                   *)
ConfirmSend(o) ==
    [log |-> <<SendEv("confirmation", o)>>, threw |-> o = "failed"]

ConfirmAppointment(i, b) ==
    LET errors == confirmValidation(b)
        appointment == ConfirmAssign(appointments[i], b)
        statusModified == appointment.status # appointments[i].status
        invalid == AppointmentSchemaErrors(appointment, now, tz)
    IN  /\ served < MaxReqs
        /\ served' = served + 1
        /\ UNCHANGED <<now, tz, env, emailEnabled, db, inflight, nextId>>
        /\ IF errors # {}
           THEN /\ res' = Response("confirm", 400, i)
                /\ log' = <<>>
                /\ UNCHANGED appointments
           ELSE IF i \notin DOMAIN appointments
           THEN /\ res' = Response("confirm", 404, i)
                /\ log' = <<>>
                /\ UNCHANGED appointments
           ELSE IF invalid # {}
           THEN /\ res' = Response("confirm", UnhandledStatus, i)
                /\ log' = <<>>
                /\ UNCHANGED appointments
           ELSE /\ appointments' =
                      [appointments EXCEPT ![i] = preSave(appointment, statusModified, now)]
                /\ \E o \in SendOutcomes(emailEnabled) :
                      /\ log' = HookEvents(appointment, statusModified, now)
                                  \o <<Saved>> \o ConfirmSend(o).log
                      /\ res' = IF ConfirmSend(o).threw
                                THEN Response("confirm", UnhandledStatus, i)
                                ELSE Response("confirm", 200, i)

----------------------------------------------------------------------------
(* DELETE /api/appointment/:id *)

DeleteAppointment(i) ==
    /\ served < MaxReqs
    /\ served' = served + 1
    /\ UNCHANGED <<now, tz, env, emailEnabled, db, inflight, nextId>>
    /\ log' = <<>>
    /\ IF i \notin DOMAIN appointments
       THEN /\ res' = Response("delete", 404, i)
            /\ UNCHANGED appointments
       ELSE /\ appointments' = [j \in DOMAIN appointments \ {i} |-> appointments[j]]
            /\ res' = Response("delete", 200, i)

(* the clock advances between requests *)
Tick ==
    /\ now < MaxNow
    /\ now' = now + 1
    /\ UNCHANGED <<tz, env, emailEnabled, db, inflight, appointments, nextId, served, res, log>>

----------------------------------------------------------------------------
(* POST /api/contact *)

contactValidation(b) ==
    {f \in {"name"} : ~isLength(trim(b.name), NameMin, NameMax)}
    \cup {f \in {"email"} : ~isEmail(b.email)}
    \cup {f \in {"subject"} : ~isLength(trim(b.subject), SubjectMin, SubjectMax)}
    \cup {f \in {"message"} :
            ~isLength(trim(b.message), ContactMessageMin, ContactMessageMax)}

(* new Contact({...}) in router.post('/') *)
NewContact(b) ==
    [name |-> trim(b.name), email |-> normalizeEmail(b.email),
     subject |-> trim(b.subject),
     message |-> trim(b.message), status |-> "new", priority |-> "medium",
     createdAt |-> None]

(* variant: each send in its own try/catch, as in appointment Create *)
ContactCreateSendsIsolated(o1, o2) ==
    [log |-> <<SendEv("confirmation", o1), SendEv("admin", o2)>>, threw |-> FALSE]

(* the two awaited sends after contact.save(), outside any try/catch *)
ContactCreateSends(o1, o2) ==
    [log |-> IF o1 = "failed"
             THEN <<SendEv("confirmation", o1)>>
             ELSE <<SendEv("confirmation", o1), SendEv("admin", o2)>>,
     threw |-> o1 = "failed" \/ o2 = "failed"]

CreateContact(b) ==
    LET errors == contactValidation(b)
    IN  /\ served < MaxReqs
        /\ served' = served + 1
        /\ UNCHANGED <<now, tz, env, emailEnabled, db, inflight, appointments, nextId>>
        /\ IF errors # {}
           THEN /\ res' = Response("contact", 400, NoId)
                /\ log' = <<>>
                /\ UNCHANGED contacts
           ELSE /\ contacts' = Append(contacts, [NewContact(b) EXCEPT !.createdAt = Some(now)])
                /\ \E o1, o2 \in SendOutcomes(emailEnabled) :
                      /\ log' = <<Saved>> \o ContactCreateSends(o1, o2).log
                      /\ res' = IF ContactCreateSends(o1, o2).threw
                                THEN Response("contact", UnhandledStatus, Len(contacts'))
                                ELSE Response("contact", 201, Len(contacts'))

----------------------------------------------------------------------------
(* POST /api/subscriber *)

subscribeValidation(b) ==
    {f \in {"email"} : ~isEmail(b.email)}
    \cup {f \in {"source"} :
            IsSet(b.source) /\ ~isLength(trim(Val(b.source)), 0, SourceMax)}

(* variant: the lookup is skipped and every request goes on to save() *)
FindSubscriberNever(email) == {}

(* Subscriber.findOne({ email }) *)
FindSubscriber(email) ==
    {k \in 1..Len(subscribers) : subscribers[k].email = lowercase(email)}

(* new Subscriber({ email, source }) *)
NewSubscriber(email, source) ==
    [email |-> lowercase(email),
     source |-> IF IsSet(source) THEN Some(trim(Val(source))) ELSE None,
     createdAt |-> None]

SubscriberSchemaErrors(doc) ==
    {f \in {"email"} : ~SubscriberEmailMatch(doc.email)}
    \cup {f \in {"source"} : IsSet(doc.source) /\ Length(Val(doc.source)) > SourceMax}

(* the unique index on email: an insert of a stored address is rejected *)
DuplicateKey(doc) == \E k \in 1..Len(subscribers) : subscribers[k].email = doc.email

(* sendSubscriptionConfirmation: a send method like the others of the      *)
(* notification sender *)
SubscriptionSendOutcomes(enabled) == SendOutcomes(enabled)

(* variant: the handler awaits the send without a catch *)
SubscriptionSendAwaited(o) ==
    [log |-> <<SendEv("subscription", o)>>, threw |-> o = "failed"]

(* emailService.sendSubscriptionConfirmation(email).catch(warn): the send  *)
(* is not awaited and its rejection is logged *)
SubscriptionSend(o) ==
    [log |-> <<SendEv("subscription", o)>>, threw |-> FALSE]

Subscribe(b) ==
    LET errors == subscribeValidation(b)
        email == normalizeEmail(b.email)
        existing == FindSubscriber(email)
        subscriber == NewSubscriber(email, b.source)
    IN  /\ served < MaxReqs
        /\ served' = served + 1
        /\ UNCHANGED <<now, tz, env, emailEnabled, db, inflight, appointments, nextId, contacts>>
        /\ IF errors # {}
           THEN /\ res' = Response("subscribe", 400, NoId)
                /\ log' = <<>>
                /\ UNCHANGED subscribers
           ELSE IF existing # {}
           THEN /\ res' = Response("subscribe", 200, NoId)
                /\ log' = <<Ev("findOne", email, "found")>>
                /\ UNCHANGED subscribers
           ELSE IF SubscriberSchemaErrors(subscriber) # {} \/ DuplicateKey(subscriber)
           THEN \* save() rejects: ValidationError, or E11000 from the index
                /\ res' = Response("subscribe", UnhandledStatus, NoId)
                /\ log' = <<Ev("findOne", email, "none")>>
                /\ UNCHANGED subscribers
           ELSE /\ subscribers' = Append(subscribers, [subscriber EXCEPT !.createdAt = Some(now)])
                /\ \E o \in SubscriptionSendOutcomes(emailEnabled) :
                      /\ log' = <<Ev("findOne", email, "none"), Saved>>
                                  \o SubscriptionSend(o).log
                      /\ res' = IF SubscriptionSend(o).threw
                                THEN Response("subscribe", UnhandledStatus, NoId)
                                ELSE Response("subscribe", 201, NoId)

----------------------------------------------------------------------------
(* /api/blog *)

(* Sample slugs as typed, with what trim() and the schema's lowercase make *)
(* of them and the verdict of /^[a-z0-9-]+$/ and of the length bounds      *)
SlugSamples == {"acne-care", " acne-care ", "hair-loss", "Acne Care", "ab"}
trimSlug(x) == IF x = " acne-care " THEN "acne-care" ELSE x
lowercaseSlug(x) == IF x = "Acne Care" THEN "acne care" ELSE x
SlugMatches(x) == x \in {"acne-care", "hair-loss", "ab"}
SlugMin == 3
SlugMax == 200
SlugLength(x) == IF x = "ab" THEN 2 ELSE 9
TitleMin == 3
TitleMax == 200
ExcerptMin == 10
ExcerptMax == 400
ContentMin == 10
SectionContentMin == 3
BlogStatuses == {"draft", "published"}

createValidation(b) ==
    {f \in {"title"} : ~isLength(trim(b.title), TitleMin, TitleMax)}
    \cup {f \in {"slug"} :
            \/ SlugLength(trimSlug(b.slug)) < SlugMin
            \/ SlugLength(trimSlug(b.slug)) > SlugMax
            \/ ~SlugMatches(trimSlug(b.slug))}
    \cup {f \in {"excerpt"} : ~isLength(trim(b.excerpt), ExcerptMin, ExcerptMax)}
    \cup {f \in {"content"} : Length(b.content) < ContentMin}
    \cup {f \in {"sections.content"} :
            \E k \in 1..Len(b.sections) :
               /\ IsSet(b.sections[k].content)
               /\ Length(Val(b.sections[k].content)) < SectionContentMin}
    \cup {f \in {"status"} : b.status # Undefined /\ b.status \notin BlogStatuses}

(* variant: no stored blog is ever found under a slug *)
FindBlogBySlugNever(slug) == {}

(* Blog.findOne({ slug }) *)
FindBlogBySlug(slug) ==
    {j \in DOMAIN blogs : blogs[j].slug = lowercaseSlug(trimSlug(slug))}

(* the document Blog.create() builds from the request body *)
NewBlog(b) ==
    [title |-> trim(b.title),
     slug |-> lowercaseSlug(trimSlug(b.slug)),
     excerpt |-> trim(b.excerpt),
     content |-> b.content,
     sections |-> b.sections,
     status |-> IF b.status # Undefined THEN b.status ELSE "published",
     publishedAt |-> None,
     createdAt |-> None]

BlogSchemaErrors(doc) ==
    {f \in {"title"} : Length(doc.title) = 0 \/ Length(doc.title) > TitleMax}
    \cup {f \in {"excerpt"} : Length(doc.excerpt) = 0 \/ Length(doc.excerpt) > ExcerptMax}
    \cup {f \in {"content"} : Length(doc.content) = 0}
    \cup {f \in {"sections.content"} :
            \E k \in 1..Len(doc.sections) :
               \/ ~IsSet(doc.sections[k].content)
               \/ Length(Val(doc.sections[k].content)) = 0}
    \cup {f \in {"status"} : doc.status \notin BlogStatuses}

(* BlogSchema.pre('save') *)
BlogPreSave(doc, statusModified, t) ==
    IF ~statusModified THEN doc
    ELSE IF doc.status = "published" /\ ~IsSet(doc.publishedAt)
         THEN [doc EXCEPT !.publishedAt = Some(t)]
    ELSE IF doc.status = "draft"
         THEN [doc EXCEPT !.publishedAt = None]
    ELSE doc

(* variant: the collection has no unique index on slug *)
SlugTakenNever(slug, i) == FALSE

(* the unique index on slug, as seen by a write to document i *)
SlugTaken(slug, i) == \E j \in DOMAIN blogs \ {i} : blogs[j].slug = slug

(* createError(message, statusCode) as the error handler answers it *)
ErrorStatus(statusCode) == statusCode

CreateBlog(b) ==
    LET errors == createValidation(b)
        exists == FindBlogBySlug(b.slug)
        blog == NewBlog(b)
        id == nextId + 1
    IN  /\ served < MaxReqs
        /\ served' = served + 1
        /\ log' = IF errors # {} THEN <<>>
                  ELSE <<Ev("findOne", trimSlug(b.slug),
                            IF exists # {} THEN "found" ELSE "none")>>
        /\ UNCHANGED <<now, tz, env, emailEnabled, db, inflight, appointments, contacts, subscribers>>
        /\ IF errors # {}
           THEN /\ res' = Response("blog.create", 400, NoId)
                /\ UNCHANGED <<blogs, nextId>>
           ELSE IF exists # {}
           THEN \* throw createError('Slug already exists', 400)
                /\ res' = Response("blog.create", ErrorStatus(400), NoId)
                /\ UNCHANGED <<blogs, nextId>>
           ELSE IF BlogSchemaErrors(blog) # {} \/ SlugTaken(blog.slug, id)
           THEN \* create() rejects: ValidationError, or E11000 from the index
                /\ res' = Response("blog.create", UnhandledStatus, NoId)
                /\ UNCHANGED <<blogs, nextId>>
           ELSE /\ nextId < MaxBlogs
                /\ nextId' = id
                /\ blogs' =
                      [j \in DOMAIN blogs \cup {id} |->
                         IF j = id
                         THEN [BlogPreSave(blog, b.status # Undefined, now)
                                 EXCEPT !.createdAt = Some(now)]
                         ELSE blogs[j]]
                /\ res' = Response("blog.create", 201, id)

(* Blog.findByIdAndUpdate(id, req.body, { new: true }): the body's fields  *)
(* are cast and $set; no save hook and no schema validator runs            *)
BlogUpdated(doc, b) ==
    [doc EXCEPT
       !.title = trim(b.title),
       !.slug = lowercaseSlug(trimSlug(b.slug)),
       !.excerpt = trim(b.excerpt),
       !.content = b.content,
       !.sections = b.sections,
       !.status = IF b.status # Undefined THEN b.status ELSE @]

UpdateBlog(i, b) ==
    LET errors == createValidation(b)
    IN  /\ served < MaxReqs
        /\ served' = served + 1
        /\ log' = <<>>
        /\ UNCHANGED <<now, tz, env, emailEnabled, db, inflight, appointments, contacts, subscribers, nextId>>
        /\ IF errors # {}
           THEN /\ res' = Response("blog.update", 400, i)
                /\ UNCHANGED blogs
           ELSE IF i \notin DOMAIN blogs
           THEN /\ res' = Response("blog.update", 404, i)
                /\ UNCHANGED blogs
           ELSE IF SlugTaken(BlogUpdated(blogs[i], b).slug, i)
           THEN \* E11000 from the unique index
                /\ res' = Response("blog.update", UnhandledStatus, i)
                /\ UNCHANGED blogs
           ELSE /\ blogs' = [blogs EXCEPT ![i] = BlogUpdated(@, b)]
                /\ res' = Response("blog.update", 200, i)

DeleteBlog(i) ==
    /\ served < MaxReqs
    /\ served' = served + 1
    /\ log' = <<>>
    /\ UNCHANGED <<now, tz, env, emailEnabled, db, inflight, appointments, contacts, subscribers, nextId>>
    /\ IF i \notin DOMAIN blogs
       THEN /\ res' = Response("blog.delete", 404, i)
            /\ UNCHANGED blogs
       ELSE /\ blogs' = [j \in DOMAIN blogs \ {i} |-> blogs[j]]
            /\ res' = Response("blog.delete", 200, i)

(* POST /api/blog as two steps, so that other requests can run between    *)
(* the await of findOne and the await of create                            *)
InFlight(rid, op, i, b) == [rid |-> rid, op |-> op, id |-> i, b |-> b]

CreateBlogFind(b) ==
    LET errors == createValidation(b)
        exists == FindBlogBySlug(b.slug)
    IN  /\ served < MaxReqs
        /\ served' = served + 1
        /\ UNCHANGED <<now, tz, env, emailEnabled, db, appointments, contacts, subscribers,
                       blogs, nextId>>
        /\ IF errors # {}
           THEN /\ res' = Response("blog.create", 400, NoId)
                /\ log' = <<>>
                /\ UNCHANGED inflight
           ELSE IF exists # {}
           THEN /\ res' = Response("blog.create", ErrorStatus(400), NoId)
                /\ log' = <<Ev("findOne", trimSlug(b.slug), "found")>>
                /\ UNCHANGED inflight
           ELSE /\ inflight' = inflight \cup {InFlight(served + 1, "blog.create", NoId, b)}
                /\ UNCHANGED <<res, log>>

CreateBlogInsert(r) ==
    LET blog == NewBlog(r.b)
        id == nextId + 1
    IN  /\ r \in inflight
        /\ r.op = "blog.create"
        /\ inflight' = inflight \ {r}
        /\ UNCHANGED <<now, tz, env, emailEnabled, db, appointments, contacts, subscribers,
                       served>>
        /\ IF BlogSchemaErrors(blog) # {} \/ SlugTaken(blog.slug, id)
           THEN \* create() rejects: ValidationError, or E11000 from the index
                /\ res' = Response("blog.create", UnhandledStatus, NoId)
                /\ log' = <<Ev("create", blog.slug, "rejected")>>
                /\ UNCHANGED <<blogs, nextId>>
           ELSE /\ nextId < MaxBlogs
                /\ nextId' = id
                /\ blogs' =
                      [j \in DOMAIN blogs \cup {id} |->
                         IF j = id
                         THEN [BlogPreSave(blog, r.b.status # Undefined, now)
                                 EXCEPT !.createdAt = Some(now)]
                         ELSE blogs[j]]
                /\ log' = <<Ev("create", blog.slug, "inserted")>>
                /\ res' = Response("blog.create", 201, id)

(* POST /api/subscriber as two steps, so that other requests can run       *)
(* between the await of findOne and the await of save                      *)
SubscribeFind(b) ==
    LET errors == subscribeValidation(b)
        email == normalizeEmail(b.email)
        existing == FindSubscriber(email)
    IN  /\ served < MaxReqs
        /\ served' = served + 1
        /\ UNCHANGED <<now, tz, env, emailEnabled, db, appointments, nextId, contacts,
                       subscribers>>
        /\ IF errors # {}
           THEN /\ res' = Response("subscribe", 400, NoId)
                /\ log' = <<>>
                /\ UNCHANGED inflight
           ELSE IF existing # {}
           THEN /\ res' = Response("subscribe", 200, NoId)
                /\ log' = <<Ev("findOne", email, "found")>>
                /\ UNCHANGED inflight
           ELSE /\ inflight' = inflight \cup {InFlight(served + 1, "subscribe", NoId, b)}
                /\ UNCHANGED <<res, log>>

SubscribeSave(r) ==
    LET email == normalizeEmail(r.b.email)
        subscriber == NewSubscriber(email, r.b.source)
    IN  /\ r \in inflight
        /\ r.op = "subscribe"
        /\ inflight' = inflight \ {r}
        /\ UNCHANGED <<now, tz, env, emailEnabled, db, appointments, nextId, contacts,
                       served>>
        /\ IF SubscriberSchemaErrors(subscriber) # {} \/ DuplicateKey(subscriber)
           THEN \* save() rejects: ValidationError, or E11000 from the index
                /\ res' = Response("subscribe", UnhandledStatus, NoId)
                /\ log' = <<Ev("save", email, "rejected")>>
                /\ UNCHANGED subscribers
           ELSE /\ subscribers' = Append(subscribers, [subscriber EXCEPT !.createdAt = Some(now)])
                /\ \E o \in SubscriptionSendOutcomes(emailEnabled) :
                      /\ log' = <<Saved>> \o SubscriptionSend(o).log
                      /\ res' = IF SubscriptionSend(o).threw
                                THEN Response("subscribe", UnhandledStatus, NoId)
                                ELSE Response("subscribe", 201, NoId)

----------------------------------------------------------------------------
(* PUT /api/appointment/:id and POST /api/appointment/:id/confirm as the   *)
(* steps their awaits divide them into: findById, save, and for Confirm    *)
(* the send that follows save                                              *)

(* a request past findById: its body, the document it loaded, and whether  *)
(* it has saved                                                            *)
Loaded(rid, op, i, b, doc) ==
    [rid |-> rid, op |-> op, id |-> i, b |-> b, doc |-> doc, phase |-> "loaded"]

(* what save() writes: the paths the handler and the hook changed in the   *)
(* loaded document go to the stored record, the others stay as stored      *)
SaveResult(stored, loaded, doc) ==
    [f \in DOMAIN stored |-> IF doc[f] # loaded[f] THEN doc[f] ELSE stored[f]]

FindForUpdate(i, b) ==
    LET errors == appointmentUpdateValidation(b)
    IN  /\ served < MaxReqs
        /\ served' = served + 1
        /\ UNCHANGED <<now, tz, env, emailEnabled, db, appointments, nextId>>
        /\ IF errors # {}
           THEN /\ res' = Response("update", 400, i)
                /\ log' = <<>>
                /\ UNCHANGED inflight
           ELSE IF i \notin DOMAIN appointments
           THEN /\ res' = Response("update", 404, i)
                /\ log' = <<>>
                /\ UNCHANGED inflight
           ELSE /\ inflight' =
                      inflight \cup {Loaded(served + 1, "update", i, b, appointments[i])}
                /\ UNCHANGED <<res, log>>

FindForConfirm(i, b) ==
    LET errors == confirmValidation(b)
    IN  /\ served < MaxReqs
        /\ served' = served + 1
        /\ UNCHANGED <<now, tz, env, emailEnabled, db, appointments, nextId>>
        /\ IF errors # {}
           THEN /\ res' = Response("confirm", 400, i)
                /\ log' = <<>>
                /\ UNCHANGED inflight
           ELSE IF i \notin DOMAIN appointments
           THEN /\ res' = Response("confirm", 404, i)
                /\ log' = <<>>
                /\ UNCHANGED inflight
           ELSE /\ inflight' =
                      inflight \cup {Loaded(served + 1, "confirm", i, b, appointments[i])}
                /\ UNCHANGED <<res, log>>

(* the document a loaded request hands to save(), after the hook *)
Assigned(r) ==
    IF r.op = "update" THEN AssignAllowed(r.doc, r.b) ELSE ConfirmAssign(r.doc, r.b)

Hooked(r, t) == preSave(Assigned(r), Assigned(r).status # r.doc.status, t)

SaveUpdate(r) ==
    /\ r \in inflight
    /\ r.op = "update"
    /\ inflight' = inflight \ {r}
    /\ UNCHANGED <<now, tz, env, emailEnabled, db, nextId, served>>
    /\ IF \/ r.id \notin DOMAIN appointments
          \/ AppointmentSchemaErrors(Assigned(r), now, tz) # {}
       THEN \* save() rejects: the document is gone, or a ValidationError
            /\ res' = Response("update", UnhandledStatus, r.id)
            /\ log' = <<>>
            /\ UNCHANGED appointments
       ELSE /\ appointments' =
                  [appointments EXCEPT
                     ![r.id] = SaveResult(appointments[r.id], r.doc, Hooked(r, now))]
            /\ log' = <<Saved>>
            /\ res' = Response("update", 200, r.id)

SaveConfirm(r) ==
    /\ r \in inflight
    /\ r.op = "confirm"
    /\ r.phase = "loaded"
    /\ UNCHANGED <<now, tz, env, emailEnabled, db, nextId, served>>
    /\ IF \/ r.id \notin DOMAIN appointments
          \/ AppointmentSchemaErrors(Assigned(r), now, tz) # {}
       THEN /\ inflight' = inflight \ {r}
            /\ res' = Response("confirm", UnhandledStatus, r.id)
            /\ log' = <<>>
            /\ UNCHANGED appointments
       ELSE /\ inflight' = (inflight \ {r}) \cup {[r EXCEPT !.phase = "saved"]}
            /\ appointments' =
                  [appointments EXCEPT
                     ![r.id] = SaveResult(appointments[r.id], r.doc, Hooked(r, now))]
            /\ UNCHANGED <<res, log>>

(* the awaited send after save(), and the response *)
SendConfirmed(r) ==
    /\ r \in inflight
    /\ r.op = "confirm"
    /\ r.phase = "saved"
    /\ inflight' = inflight \ {r}
    /\ UNCHANGED <<now, tz, env, emailEnabled, db, nextId, served, appointments>>
    /\ \E o \in SendOutcomes(emailEnabled) :
          /\ log' = <<Saved>> \o ConfirmSend(o).log
          /\ res' = IF ConfirmSend(o).threw
                    THEN Response("confirm", UnhandledStatus, r.id)
                    ELSE Response("confirm", 200, r.id)

----------------------------------------------------------------------------
(* DatabaseService, the driver's connection and the process that owns them *)

(* db.isConnected is the service's flag; db.conn is the driver's           *)
(* connection: closed, open, or lost (dropped, the driver reconnecting);   *)
(* db.listeners says whether connect() has registered the event handlers;  *)
(* db.proc is the process: starting (the top-level await of connect()),    *)
(* running, or exited; db.calls are the calls awaiting the driver, db.made  *)
(* counts the calls made and db.health is the last healthCheck() result    *)
MaxCalls == 3

Signals == {"SIGINT", "SIGTERM"}

NoHealth == [status |-> "none", connected |-> FALSE]

(* the service as constructed: private isConnected: boolean = false *)
StoreNew ==
    [isConnected |-> FALSE, conn |-> "closed", listeners |-> FALSE,
     proc |-> "starting", calls |-> {}, made |-> 0, health |-> NoHealth]

(* the service once start-up has connected *)
StoreUp ==
    [StoreNew EXCEPT !.isConnected = TRUE, !.conn = "open", !.listeners = TRUE,
                     !.proc = "running"]

serviceVars == <<now, tz, env, emailEnabled, appointments, nextId, served, res, log,
                 contacts, subscribers, blogs, listRes, inflight>>

(* a call that awaits the driver; open is the connection as the caller     *)
(* found it                                                                *)
StoreCall(op, by) ==
    [op |-> op, by |-> by, open |-> db.conn = "open", id |-> db.made + 1]

(* databaseService.connect() up to its await: by start-up while the        *)
(* process starts, by any other caller while it runs                       *)
Connect(by) ==
    /\ db.made < MaxCalls
    /\ \/ db.proc = "starting" /\ by = "startup" /\ db.calls = {}
       \/ db.proc = "running" /\ by = "app"
    /\ db' = IF db.isConnected
             THEN [db EXCEPT !.made = @ + 1]
             ELSE [db EXCEPT !.made = @ + 1,
                             !.calls = @ \cup {StoreCall("connect", by)}]
    /\ UNCHANGED serviceVars

(* mongoose.connect() settles: the rest of connect(), and of start-up      *)
ConnectSettle(c) ==
    /\ db.proc # "exited"
    /\ c \in db.calls
    /\ c.op = "connect"
    /\ \/ db' = [db EXCEPT !.calls = @ \ {c}, !.conn = "open", !.isConnected = TRUE,
                            !.listeners = TRUE,
                            !.proc = IF c.by = "startup" THEN "running" ELSE @]
       \/ /\ db.conn # "open"
          /\ db' = [db EXCEPT !.calls = @ \ {c}, !.isConnected = FALSE,
                               !.proc = IF c.by = "startup" THEN "exited" ELSE @]
    /\ UNCHANGED serviceVars

(* databaseService.disconnect() up to its await; process.on(signal) calls  *)
(* it and exits when it returns                                            *)
Disconnect(by) ==
    /\ db.made < MaxCalls
    /\ db.proc = "running"
    /\ db' = IF ~db.isConnected
             THEN [db EXCEPT !.made = @ + 1,
                             !.proc = IF by \in Signals THEN "exited" ELSE @]
             ELSE [db EXCEPT !.made = @ + 1,
                             !.calls = @ \cup {StoreCall("disconnect", by)}]
    /\ UNCHANGED serviceVars

(* mongoose.disconnect() settles: the rest of disconnect(), then           *)
(* process.exit(0) in a signal handler.  A rejection leaves the signal     *)
(* handler's promise rejected, which ends the process or not, depending on *)
(* the runtime's handling of unhandled rejections                          *)
DisconnectSettle(c) ==
    /\ db.proc # "exited"
    /\ c \in db.calls
    /\ c.op = "disconnect"
    /\ \/ db' = [db EXCEPT !.calls = @ \ {c}, !.conn = "closed", !.isConnected = FALSE,
                            !.proc = IF c.by \in Signals THEN "exited" ELSE @]
       \/ \E p \in {"running", "exited"} :
             /\ c.by \notin Signals => p = "running"
             /\ db' = [db EXCEPT !.calls = @ \ {c}, !.proc = p]
    /\ UNCHANGED serviceVars

(* mongoose.connection.on('error'): the driver reports an error on the     *)
(* connection, which stays as it is                                        *)
DriverError ==
    /\ db.proc # "exited"
    /\ db.listeners
    /\ db.conn # "closed"
    /\ db' = [db EXCEPT !.isConnected = FALSE]
    /\ UNCHANGED serviceVars

(* mongoose.connection.on('disconnected'): the connection dropped *)
DriverDisconnected ==
    /\ db.proc # "exited"
    /\ db.conn = "open"
    /\ db' = [db EXCEPT !.conn = "lost",
                        !.isConnected = IF db.listeners THEN FALSE ELSE @]
    /\ UNCHANGED serviceVars

(* mongoose.connection.on('reconnected'): the driver restored it *)
DriverReconnected ==
    /\ db.proc # "exited"
    /\ db.conn = "lost"
    /\ db' = [db EXCEPT !.conn = "open",
                        !.isConnected = IF db.listeners THEN TRUE ELSE @]
    /\ UNCHANGED serviceVars

(* databaseService.healthCheck(): listCollections() answers or throws *)
HealthCheck ==
    /\ db.proc = "running"
    /\ \E listed \in BOOLEAN :
          db' = [db EXCEPT !.health =
                    IF ~db.isConnected THEN [status |-> "disconnected", connected |-> FALSE]
                    ELSE IF listed THEN [status |-> "connected", connected |-> TRUE]
                    ELSE [status |-> "error", connected |-> FALSE]]
    /\ UNCHANGED serviceVars

----------------------------------------------------------------------------
(* The list endpoints: GET /api/appointment, /api/contact, /api/blog,      *)
(* /api/subscriber                                                         *)

(* Query-string samples: the integer a numeral denotes, isInt() on it and  *)
(* parseInt() of it (None is NaN)                                          *)
IntValue ==
    ("0" :> 0) @@ ("1" :> 1) @@ ("2" :> 2) @@ ("3" :> 3) @@ ("5" :> 5)
    @@ ("10" :> 10) @@ ("100" :> 100) @@ ("101" :> 101)
isIntMin(x, min) == x \in DOMAIN IntValue /\ IntValue[x] >= min
isInt(x, min, max) == isIntMin(x, min) /\ IntValue[x] <= max
parseInt(x) ==
    IF x \in DOMAIN IntValue THEN Some(IntValue[x])
    ELSE IF x = "2.5" THEN Some(2)
    ELSE None

(* value || fallback, for a parsed number: NaN and 0 are falsy *)
OrDefault(parsed, fallback) ==
    IF IsSet(parsed) /\ Val(parsed) # 0 THEN Val(parsed) ELSE fallback

PageDefault == 1
LimitDefault == 10
LimitMax == 100
ContactStatuses == {"new", "read", "replied", "archived"}

(* the validators of page and limit, the same in the four list routes,    *)
(* and of status in the routes that filter on it                           *)
pageLimitValidation(q) ==
    {f \in {"page"} : q.page # Undefined /\ ~isIntMin(q.page, 1)}
    \cup {f \in {"limit"} : q.limit # Undefined /\ ~isInt(q.limit, 1, LimitMax)}
listValidation(q, statuses) ==
    pageLimitValidation(q)
    \cup {f \in {"status"} : q.status # Undefined /\ q.status \notin statuses}

(* Math.ceil(total / limit) *)
Ceil(total, limit) ==
    IF total % limit = 0 THEN total \div limit ELSE total \div limit + 1

(* .skip(skip) *)
Skip(s, skip) == SubSeq(s, skip + 1, Len(s))

(* variant: the limit is not applied *)
LimitNone(s, limit) == s

(* .limit(limit) *)
Limit(s, limit) == SubSeq(s, 1, IF limit < Len(s) THEN limit ELSE Len(s))

(* variant: the first page starts after the first `limit` records *)
PaginateFromNext(sorted, page, limit) ==
    LET total == Len(sorted)
        totalPages == Ceil(total, limit)
    IN  [items |-> Limit(Skip(sorted, page * limit), limit),
         pagination |->
            Some([currentPage |-> page, totalPages |-> totalPages,
                  totalItems |-> total, itemsPerPage |-> limit,
                  hasNextPage |-> page < totalPages, hasPrevPage |-> page > 1])]

(* find(filter).sort(...).skip(skip).limit(limit), countDocuments(filter)  *)
(* and the pagination object, over the matching records in sort order      *)
Paginate(sorted, page, limit) ==
    LET skip == (page - 1) * limit
        total == Len(sorted)
        totalPages == Ceil(total, limit)
    IN  [items |-> Limit(Skip(sorted, skip), limit),
         pagination |->
            Some([currentPage |-> page, totalPages |-> totalPages,
                  totalItems |-> total, itemsPerPage |-> limit,
                  hasNextPage |-> page < totalPages, hasPrevPage |-> page > 1])]

(* the orders a sort may return the records S in: every arrangement in     *)
(* which no record comes before one that sorts strictly before it;         *)
(* Before[a, b] says that a sorts strictly before b                        *)
Orderings(S, Before) ==
    {s \in [1..Cardinality(S) -> S] :
        /\ \A i, j \in 1..Cardinality(S) : s[i] = s[j] => i = j
        /\ \A i, j \in 1..Cardinality(S) : i < j => ~Before[s[j], s[i]]}

(* the rank of a time slot in the order of its characters, which is the    *)
(* order a sort on the string field uses                                   *)
SlotRank(slot) ==
    CASE slot = "10:00 AM" -> 1 [] slot = "11:00 AM" -> 2 [] slot = "12:00 PM" -> 3
      [] slot = "2:00 PM" -> 4 [] slot = "3:00 PM" -> 5 [] slot = "4:00 PM" -> 6
      [] slot = "5:00 PM" -> 7 [] slot = "6:00 PM" -> 8 [] slot = "9:00 AM" -> 9

ListResponse(op, q, code, body) ==
    [op |-> op, q |-> q, code |-> code, items |-> body.items,
     pagination |-> body.pagination]
NoBody == [items |-> <<>>, pagination |-> None]
NoQuery == [page |-> Undefined, limit |-> Undefined, status |-> Undefined,
            search |-> Undefined]
NoPage == ListResponse("none", NoQuery, 0, NoBody)

listOthers == <<now, tz, env, emailEnabled, db, inflight, appointments, nextId, served, res, log,
                contacts, subscribers, blogs>>

(* GET /api/appointment *)
AppointmentFilter(q) ==
    {i \in DOMAIN appointments : q.status # Undefined => appointments[i].status = q.status}
AppointmentBefore ==
  [i, j \in DOMAIN appointments |->
    \/ appointments[i].preferredDate < appointments[j].preferredDate
    \/ /\ appointments[i].preferredDate = appointments[j].preferredDate
       /\ SlotRank(appointments[i].preferredTime) < SlotRank(appointments[j].preferredTime)]
ListAppointments(q) ==
    LET page == OrDefault(parseInt(q.page), PageDefault)
        limit == OrDefault(parseInt(q.limit), LimitDefault)
    IN  /\ UNCHANGED listOthers
        /\ IF listValidation(q, Statuses) # {}
           THEN listRes' = ListResponse("appointment", q, 400, NoBody)
           ELSE \E order \in Orderings(AppointmentFilter(q), AppointmentBefore) :
                  listRes' = ListResponse("appointment", q, 200,
                             Paginate([k \in DOMAIN order |-> appointments[order[k]]],
                                      page, limit))

(* GET /api/contact *)
ContactFilter(q) ==
    {i \in DOMAIN contacts : q.status # Undefined => contacts[i].status = q.status}
ContactBefore ==
  [i, j \in DOMAIN contacts |-> Val(contacts[i].createdAt) > Val(contacts[j].createdAt)]
ListContacts(q) ==
    LET page == OrDefault(parseInt(q.page), PageDefault)
        limit == OrDefault(parseInt(q.limit), LimitDefault)
    IN  /\ UNCHANGED listOthers
        /\ IF listValidation(q, ContactStatuses) # {}
           THEN listRes' = ListResponse("contact", q, 400, NoBody)
           ELSE \E order \in Orderings(ContactFilter(q), ContactBefore) :
                  listRes' = ListResponse("contact", q, 200,
                             Paginate([k \in DOMAIN order |-> contacts[order[k]]],
                                      page, limit))

(* GET /api/blog: parseInt(value || '1'), parseInt(value || '10') *)
BlogFilter(q) ==
    {i \in DOMAIN blogs : q.status # Undefined => blogs[i].status = q.status}
SortTime(o) == IF IsSet(o) THEN Val(o) ELSE -1
BlogBefore ==
  [i, j \in DOMAIN blogs |->
    \/ SortTime(blogs[i].publishedAt) > SortTime(blogs[j].publishedAt)
    \/ /\ SortTime(blogs[i].publishedAt) = SortTime(blogs[j].publishedAt)
       /\ SortTime(blogs[i].createdAt) > SortTime(blogs[j].createdAt)]
ListBlogs(q) ==
    LET page == Val(parseInt(IF q.page # Undefined THEN q.page ELSE "1"))
        limit == Val(parseInt(IF q.limit # Undefined THEN q.limit ELSE "10"))
    IN  /\ UNCHANGED listOthers
        /\ IF listValidation(q, BlogStatuses) # {}
           THEN listRes' = ListResponse("blog", q, 400, NoBody)
           ELSE \E order \in Orderings(BlogFilter(q), BlogBefore) :
                  listRes' = ListResponse("blog", q, 200,
                             Paginate([k \in DOMAIN order |-> blogs[order[k]]],
                                      page, limit))

(* GET /api/subscriber: { email: { $regex: search, $options: 'i' } } *)
SearchMatches(email, search) ==
    search = "ann" /\ email \in {"ann@example.com", "joann@example.com"}
SubscriberFilter(q) ==
    {i \in DOMAIN subscribers :
        q.search # Undefined => SearchMatches(subscribers[i].email, q.search)}
SubscriberBefore ==
  [i, j \in DOMAIN subscribers |->
    Val(subscribers[i].createdAt) > Val(subscribers[j].createdAt)]
ListSubscribers(q) ==
    LET page == OrDefault(parseInt(q.page), PageDefault)
        limit == OrDefault(parseInt(q.limit), LimitDefault)
    IN  /\ UNCHANGED listOthers
        /\ IF pageLimitValidation(q) # {}
           THEN listRes' = ListResponse("subscriber", q, 400, NoBody)
           ELSE \E order \in Orderings(SubscriberFilter(q), SubscriberBefore) :
                  listRes' = ListResponse("subscriber", q, 200,
                             Paginate([k \in DOMAIN order |-> subscribers[order[k]]],
                                      page, limit))

----------------------------------------------------------------------------
(* Requests *)

MaxT == MaxNow + DayLen

DateInputs ==
    {DateOnly(d) : d \in 0..(MaxT \div DayLen)}
    \cup {DateTime(t) : t \in 0..MaxT}
    \cup {BadDate}

BaseCreate ==
    [name |-> Txt(0, 3), email |-> "ann@example.com", phone |-> "+91 98765 43210",
     treatmentType |-> "Acne Treatment", preferredDate |-> DateOnly(MaxT \div DayLen),
     preferredTime |-> "10:00 AM", message |-> None,
     status |-> Undefined, priority |-> Undefined]

(* valid and past or malformed dates, with and without a status and a     *)
(* priority in the body *)
DatedBodies(dates) ==
    {[BaseCreate EXCEPT !.preferredDate = d, !.status = sp[1], !.priority = sp[2]] :
        d \in dates, sp \in {<<Undefined, Undefined>>, <<"confirmed", "high">>}}

(* bodies with one parameter changed, most of them to an invalid value *)
DeviantBodies ==
    {[BaseCreate EXCEPT !.name = n] : n \in {Txt(2, 1), Txt(0, NameMax + 1)}}
    \cup {[BaseCreate EXCEPT !.email = e] : e \in EmailSamples}
    \cup {[BaseCreate EXCEPT !.phone = ph] : ph \in PhoneSamples}
    \cup {[BaseCreate EXCEPT !.treatmentType = "Botox"]}
    \cup {[BaseCreate EXCEPT !.preferredTime = "7:00 PM"]}
    \cup {[BaseCreate EXCEPT !.message = m] :
            m \in {Some(Txt(1, 20)), Some(Txt(0, MessageMax + 1))}}

CreateBodies ==
    DatedBodies({DateOnly(d) : d \in 0..(MaxT \div DayLen)} \cup {BadDate})
    \cup DeviantBodies

BookingBodies == DatedBodies(DateInputs) \cup DeviantBodies

NoTags == [k |-> Undefined, v |-> {}]

BaseUpdate ==
    [status |-> Undefined, priority |-> Undefined, confirmedDate |-> NoDate,
     confirmedTime |-> Undefined, duration |-> None, notes |-> None,
     assignedTo |-> None, tags |-> NoTags, cancelledReason |-> None,
     name |-> None, email |-> Undefined, phone |-> Undefined,
     treatmentType |-> Undefined, preferredDate |-> NoDate,
     preferredTime |-> Undefined, message |-> None, reminderSent |-> None]

(* a body that also carries the fields of the booking form and the         *)
(* reminder flag, each a value its schema path accepts *)
BookingFieldsUpdate ==
    [BaseUpdate EXCEPT
       !.name = Some(Txt(0, 5)), !.email = "Ann@Example.com",
       !.phone = "12345", !.treatmentType = "Hair Transplant",
       !.preferredDate = DateOnly(0), !.preferredTime = "2:00 PM",
       !.message = Some(Txt(0, 7)), !.reminderSent = Some(TRUE)]

ConfirmDateInputs == {NoDate, DateOnly(1)}
ConfirmTimeInputs == {Undefined, "2:00 PM"}

(* valid updates of the status and the confirmed slot, and updates that    *)
(* change the status and carry one invalid parameter                       *)
UpdateBodies ==
    {[BaseUpdate EXCEPT !.status = s, !.confirmedDate = d, !.confirmedTime = t] :
        s \in {Undefined} \cup Statuses,
        d \in ConfirmDateInputs, t \in ConfirmTimeInputs}
    \cup {BookingFieldsUpdate,
          [BookingFieldsUpdate EXCEPT !.status = "confirmed", !.priority = "high"]}
    \cup {[BaseUpdate EXCEPT !.status = "archived"],
          [BaseUpdate EXCEPT !.status = "cancelled", !.priority = "urgent"],
          [BaseUpdate EXCEPT !.status = "confirmed", !.confirmedDate = BadDate],
          [BaseUpdate EXCEPT !.status = "confirmed", !.confirmedTime = "7:00 PM"],
          [BaseUpdate EXCEPT !.status = "completed", !.duration = Some(DurationMin - 1)],
          [BaseUpdate EXCEPT !.status = "completed", !.duration = Some(DurationMax + 1)],
          [BaseUpdate EXCEPT !.status = "confirmed", !.notes = Some(Txt(0, NotesMax + 1))],
          [BaseUpdate EXCEPT !.status = "cancelled",
                             !.assignedTo = Some(Txt(0, AssignedToMax + 1))],
          [BaseUpdate EXCEPT !.status = "cancelled", !.tags = [k |-> "string", v |-> {}]],
          [BaseUpdate EXCEPT !.status = "cancelled",
                             !.cancelledReason = Some(Txt(0, CancelledReasonMax + 1))]}

ConfirmBodies ==
    {[confirmedDate |-> d, confirmedTime |-> t, notes |-> None] :
        d \in ConfirmDateInputs, t \in ConfirmTimeInputs}
    \cup {[confirmedDate |-> BadDate, confirmedTime |-> Undefined, notes |-> None],
          [confirmedDate |-> NoDate, confirmedTime |-> "7:00 PM", notes |-> None],
          [confirmedDate |-> NoDate, confirmedTime |-> Undefined,
           notes |-> Some(Txt(0, NotesMax + 1))]}

BaseContact ==
    [name |-> Txt(0, 3), email |-> "ann@example.com", subject |-> Txt(0, 12),
     message |-> Txt(0, 40)]

ContactBodies ==
    {BaseContact,
     [BaseContact EXCEPT !.name = Txt(2, 1)],
     [BaseContact EXCEPT !.email = "not-an-email"],
     [BaseContact EXCEPT !.subject = Txt(0, SubjectMax + 1)],
     [BaseContact EXCEPT !.subject = Txt(1, SubjectMin - 1)],
     [BaseContact EXCEPT !.message = Txt(0, ContactMessageMax + 1)],
     [BaseContact EXCEPT !.message = Txt(3, ContactMessageMin - 1)]}

SubscribeBodies ==
    {[email |-> e, source |-> None] : e \in EmailSamples}
    \cup {[email |-> "ann@example.com", source |-> Some(Txt(1, 6))],
          [email |-> "bob@clinic.info", source |-> Some(Txt(0, SourceMax + 1))]}

BaseBlog ==
    [title |-> Txt(0, 12), slug |-> "acne-care", excerpt |-> Txt(0, 40),
     content |-> Txt(0, 80), sections |-> <<>>, status |-> Undefined]

BlogBodies ==
    {[BaseBlog EXCEPT !.slug = x, !.status = st] :
        x \in SlugSamples, st \in {Undefined, "draft", "published"}}
    \cup {[BaseBlog EXCEPT !.slug = "hair-loss", !.title = Txt(1, 2)],
          [BaseBlog EXCEPT !.slug = "hair-loss", !.title = Txt(0, 30)],
          [BaseBlog EXCEPT !.slug = "hair-loss", !.status = "archived"],
          [BaseBlog EXCEPT !.slug = "hair-loss", !.sections = <<[content |-> None]>>],
          [BaseBlog EXCEPT !.slug = "hair-loss", !.sections = <<[content |-> Some(Txt(0, 2))]>>],
          [BaseBlog EXCEPT !.slug = "hair-loss", !.sections = <<[content |-> Some(Txt(0, 20))]>>]}

BlogIds == 1..MaxBlogs

PageSamples == {Undefined, "1", "2", "3", "0", "abc", "2.5"}
LimitSamples == {Undefined, "1", "2", "5", "100", "0", "101", "abc"}
ListQueries(statuses) ==
    {[page |-> p, limit |-> l, status |-> st, search |-> Undefined] :
        p \in PageSamples, l \in LimitSamples, st \in statuses}
SubscriberQueries ==
    {[page |-> p, limit |-> l, status |-> Undefined, search |-> sr] :
        p \in PageSamples, l \in LimitSamples, sr \in {Undefined, "ann"}}

(* Stored records for the list endpoints: n records per collection, the    *)
(* first k of them moved out of their initial status by a later update     *)
StoredAppointment(j, k) ==
    LET created ==
          [NewAppointment([BaseCreate EXCEPT
               !.preferredDate = DateOnly(j % 2),
               !.preferredTime = IF j % 3 = 0 THEN "2:00 PM"
                                 ELSE IF j % 3 = 1 THEN "9:00 AM" ELSE "10:00 AM"])
             EXCEPT !.createdAt = Some(0)]
    IN  IF j <= k THEN preSave([created EXCEPT !.status = "cancelled"], TRUE, 1)
        ELSE created
StoredContact(j, k) ==
    [NewContact(BaseContact) EXCEPT
        !.createdAt = Some((j - 1) % DayLen),
        !.status = IF j <= k THEN "read" ELSE "new"]
StoredSlugs == <<"acne-care", "hair-loss", "laser-faq", "peel-care", "skin-tips">>
StoredBlog(j, k) ==
    LET b == [BaseBlog EXCEPT !.slug = StoredSlugs[j],
                              !.status = IF j <= k THEN "draft" ELSE "published"]
    IN  [BlogPreSave(NewBlog(b), TRUE, (j - 1) % DayLen)
           EXCEPT !.createdAt = Some((j - 1) % DayLen)]
StoredEmails ==
    <<"ann@example.com", "bob@clinic.info", "joann@example.com",
      "cara@example.com", "dev@example.com">>
StoredSubscriber(j) ==
    [NewSubscriber(StoredEmails[j], None) EXCEPT !.createdAt = Some((j - 1) % DayLen)]

Ids == 1..MaxAppts

----------------------------------------------------------------------------
(* The appointment service *)

NoResponse == Response("none", 0, NoId)

Init ==
    /\ now = 0
    /\ tz \in TZOffsets
    /\ env = Configured
    /\ inflight = {}
    /\ db = StoreUp
    /\ emailEnabled = EmailServiceEnabled(env)
    /\ appointments = <<>>
    /\ nextId = 0
    /\ served = 0
    /\ res = NoResponse
    /\ log = <<>>
    /\ contacts = <<>>
    /\ subscribers = <<>>
    /\ blogs = <<>>
    /\ listRes = NoPage

Next ==
    \/ \E b \in CreateBodies : CreateAppointment(b) /\ UNCHANGED otherVars
    \/ \E i \in Ids, b \in UpdateBodies :
          UpdateAppointment(i, b) /\ UNCHANGED otherVars
    \/ \E i \in Ids, b \in ConfirmBodies :
          ConfirmAppointment(i, b) /\ UNCHANGED otherVars
    \/ \E i \in Ids : DeleteAppointment(i) /\ UNCHANGED otherVars
    \/ Tick /\ UNCHANGED otherVars

Spec == Init /\ [][Next]_vars

(* The appointment service under requests that keep a confirmed            *)
(* appointment confirmed: Updates that carry no status or the status       *)
(* confirmed, and Confirms                                                 *)
ConfirmingUpdateBodies ==
    {b \in UpdateBodies : b.status \in {Undefined, "confirmed"}}

NextConfirming ==
    \/ CreateAppointment(BaseCreate) /\ UNCHANGED otherVars
    \/ \E i \in Ids, b \in ConfirmingUpdateBodies :
          UpdateAppointment(i, b) /\ UNCHANGED otherVars
    \/ \E i \in Ids, b \in ConfirmBodies :
          ConfirmAppointment(i, b) /\ UNCHANGED otherVars
    \/ \E i \in Ids : DeleteAppointment(i) /\ UNCHANGED otherVars
    \/ Tick /\ UNCHANGED otherVars

SpecConfirming == Init /\ [][NextConfirming]_vars

(* The public booking endpoint alone, under every date input, time zone    *)
(* and mail configuration                                                  *)
InitBooking ==
    /\ now = 0
    /\ tz \in TZOffsets
    /\ env \in {Configured, NotConfigured}
    /\ inflight = {}
    /\ db = StoreUp
    /\ emailEnabled = EmailServiceEnabled(env)
    /\ appointments = <<>>
    /\ nextId = 0
    /\ served = 0
    /\ res = NoResponse
    /\ log = <<>>
    /\ contacts = <<>>
    /\ subscribers = <<>>
    /\ blogs = <<>>
    /\ listRes = NoPage

NextBooking ==
    \/ \E b \in BookingBodies : CreateAppointment(b) /\ UNCHANGED otherVars
    \/ \E i \in Ids : DeleteAppointment(i) /\ UNCHANGED otherVars
    \/ Tick /\ UNCHANGED otherVars

SpecBooking == InitBooking /\ [][NextBooking]_vars

(* The requests that create or change a record from a validated body *)
idleVars == <<subscribers, blogs, listRes>>

NextIntake ==
    \/ \E b \in CreateBodies :
          CreateAppointment(b) /\ UNCHANGED contacts /\ UNCHANGED idleVars
    \/ \E i \in Ids, b \in UpdateBodies :
          UpdateAppointment(i, b) /\ UNCHANGED contacts /\ UNCHANGED idleVars
    \/ \E b \in ContactBodies :
          CreateContact(b) /\ UNCHANGED idleVars
    \/ Tick /\ UNCHANGED contacts /\ UNCHANGED idleVars

SpecIntake == Init /\ [][NextIntake]_vars

(* The contact form alone, with the sender enabled or disabled *)
NextContact ==
    \/ \E b \in ContactBodies : CreateContact(b) /\ UNCHANGED idleVars
    \/ Tick /\ UNCHANGED contacts /\ UNCHANGED idleVars

SpecContact == InitBooking /\ [][NextContact]_vars

(* The handlers that send, under every configuration of the credentials *)
InitSender ==
    /\ now = 0
    /\ tz = 0
    /\ env \in EnvSamples
    /\ inflight = {}
    /\ db = StoreUp
    /\ emailEnabled = EmailServiceEnabled(env)
    /\ appointments = <<>>
    /\ nextId = 0
    /\ served = 0
    /\ res = NoResponse
    /\ log = <<>>
    /\ contacts = <<>>
    /\ subscribers = <<>>
    /\ blogs = <<>>
    /\ listRes = NoPage

SenderConfirmBodies ==
    {[confirmedDate |-> NoDate, confirmedTime |-> Undefined, notes |-> None],
     [confirmedDate |-> NoDate, confirmedTime |-> "7:00 PM", notes |-> None]}

NextSender ==
    \/ CreateAppointment(BaseCreate) /\ UNCHANGED otherVars
    \/ \E i \in Ids, b \in SenderConfirmBodies :
          ConfirmAppointment(i, b) /\ UNCHANGED otherVars
    \/ \E b \in ContactBodies : CreateContact(b) /\ UNCHANGED idleVars
    \/ \E b \in SubscribeBodies : Subscribe(b) /\ UNCHANGED <<blogs, listRes>>

SpecSender == InitSender /\ [][NextSender]_vars

(* The subscription endpoint *)
NextSubscriber ==
    \E b \in SubscribeBodies : Subscribe(b) /\ UNCHANGED <<blogs, listRes>>

SpecSubscriber == InitBooking /\ [][NextSubscriber]_vars

(* The subscription endpoint with the two steps of a request interleaved  *)
(* with other subscribe requests                                           *)
RaceSubscribeBodies ==
    {[email |-> "ann@example.com", source |-> None],
     [email |-> "Ann@Example.com", source |-> Some(Txt(1, 6))],
     [email |-> "bob@clinic.info", source |-> None],
     [email |-> "not-an-email", source |-> None]}

NextSubscriberRace ==
    \/ \E b \in RaceSubscribeBodies : SubscribeFind(b) /\ UNCHANGED <<blogs, listRes>>
    \/ \E r \in inflight : SubscribeSave(r) /\ UNCHANGED <<blogs, listRes>>

SpecSubscriberRace == InitBooking /\ [][NextSubscriberRace]_vars

(* The store service from construction: start-up, callers of connect()    *)
(* and disconnect(), driver events, health checks and signals              *)
InitStore ==
    /\ now = 0
    /\ tz = 0
    /\ env = Configured
    /\ inflight = {}
    /\ db = StoreNew
    /\ emailEnabled = EmailServiceEnabled(env)
    /\ appointments = <<>>
    /\ nextId = 0
    /\ served = 0
    /\ res = NoResponse
    /\ log = <<>>
    /\ contacts = <<>>
    /\ subscribers = <<>>
    /\ blogs = <<>>
    /\ listRes = NoPage

NextStore ==
    \/ \E by \in {"startup", "app"} : Connect(by)
    \/ \E c \in db.calls : ConnectSettle(c)
    \/ \E by \in {"app"} \cup Signals : Disconnect(by)
    \/ \E c \in db.calls : DisconnectSettle(c)
    \/ DriverError
    \/ DriverDisconnected
    \/ DriverReconnected
    \/ HealthCheck

SpecStore == InitStore /\ [][NextStore]_vars

(* Update and Confirm of stored appointments with their steps interleaved *)
RaceUpdateBodies ==
    {[BaseUpdate EXCEPT !.status = s, !.confirmedDate = d] :
        s \in {Undefined, "completed", "cancelled"}, d \in ConfirmDateInputs}
    \cup {[BaseUpdate EXCEPT !.status = "archived"]}

RaceConfirmBodies ==
    {[confirmedDate |-> d, confirmedTime |-> t, notes |-> None] :
        d \in ConfirmDateInputs, t \in ConfirmTimeInputs}
    \cup {[confirmedDate |-> BadDate, confirmedTime |-> Undefined, notes |-> None]}

NextAppointmentRace ==
    \/ CreateAppointment(BaseCreate) /\ UNCHANGED otherVars
    \/ \E i \in Ids, b \in RaceUpdateBodies : FindForUpdate(i, b) /\ UNCHANGED otherVars
    \/ \E i \in Ids, b \in RaceConfirmBodies : FindForConfirm(i, b) /\ UNCHANGED otherVars
    \/ \E r \in inflight : SaveUpdate(r) /\ UNCHANGED otherVars
    \/ \E r \in inflight : SaveConfirm(r) /\ UNCHANGED otherVars
    \/ \E r \in inflight : SendConfirmed(r) /\ UNCHANGED otherVars
    \/ \E i \in Ids : DeleteAppointment(i) /\ UNCHANGED otherVars

SpecAppointmentRace == Init /\ [][NextAppointmentRace]_vars

(* The blog endpoints *)
NextBlog ==
    \/ \E b \in BlogBodies : CreateBlog(b) /\ UNCHANGED listRes
    \/ \E i \in BlogIds, b \in BlogBodies : UpdateBlog(i, b) /\ UNCHANGED listRes
    \/ \E i \in BlogIds : DeleteBlog(i) /\ UNCHANGED listRes
    \/ Tick /\ UNCHANGED otherVars

SpecBlog == Init /\ [][NextBlog]_vars

(* The blog endpoints with the two steps of Create interleaved with other  *)
(* requests                                                                *)
RaceBlogBodies ==
    {BaseBlog, [BaseBlog EXCEPT !.status = "draft"],
     [BaseBlog EXCEPT !.slug = "hair-loss"], [BaseBlog EXCEPT !.slug = "Acne Care"]}

NextBlogRace ==
    \/ \E b \in RaceBlogBodies : CreateBlogFind(b) /\ UNCHANGED listRes
    \/ \E r \in inflight : CreateBlogInsert(r) /\ UNCHANGED listRes
    \/ \E i \in BlogIds, b \in RaceBlogBodies :
          UpdateBlog(i, b) /\ UNCHANGED listRes
    \/ \E i \in BlogIds : DeleteBlog(i) /\ UNCHANGED listRes

SpecBlogRace == Init /\ [][NextBlogRace]_vars

(* The list endpoints over stores of up to MaxDocs records *)
InitList ==
    /\ now = DayLen - 1
    /\ tz = 0
    /\ env = Configured
    /\ inflight = {}
    /\ db = StoreUp
    /\ emailEnabled = EmailServiceEnabled(env)
    /\ served = 0
    /\ res = NoResponse
    /\ log = <<>>
    /\ listRes = NoPage
    /\ \E n \in 0..MaxDocs, k \in 0..MaxDocs :
          /\ k <= n
          /\ nextId = n
          /\ appointments = [j \in 1..n |-> StoredAppointment(j, k)]
          /\ contacts = [j \in 1..n |-> StoredContact(j, k)]
          /\ blogs = [j \in 1..n |-> StoredBlog(j, k)]
          /\ subscribers = [j \in 1..n |-> StoredSubscriber(j)]

NextList ==
    \/ \E q \in ListQueries({Undefined, "cancelled", "bogus"}) : ListAppointments(q)
    \/ \E q \in ListQueries({Undefined, "read", "bogus"}) : ListContacts(q)
    \/ \E q \in ListQueries({Undefined, "draft", "bogus"}) : ListBlogs(q)
    \/ \E q \in SubscriberQueries : ListSubscribers(q)

SpecList == InitList /\ [][NextList]_vars

(* The administrative endpoints over a store that already holds up to     *)
(* MaxDocs appointments and issues one more id                             *)
AdminIds == 1..(MaxDocs + 1)
AdminUpdateBodies ==
    {[BaseUpdate EXCEPT !.status = "completed", !.priority = "high"],
     [BaseUpdate EXCEPT !.status = "no-show", !.priority = "low"],
     [BaseUpdate EXCEPT !.status = "archived"]}
AdminConfirmBodies ==
    {[confirmedDate |-> NoDate, confirmedTime |-> Undefined, notes |-> None],
     [confirmedDate |-> NoDate, confirmedTime |-> "7:00 PM", notes |-> None]}

NextAdmin ==
    \/ CreateAppointmentUpTo(BaseCreate, MaxDocs + 1) /\ UNCHANGED otherVars
    \/ \E i \in AdminIds : GetAppointment(i) /\ UNCHANGED otherVars
    \/ \E i \in AdminIds, b \in AdminUpdateBodies :
          UpdateAppointment(i, b) /\ UNCHANGED otherVars
    \/ \E i \in AdminIds, b \in AdminConfirmBodies :
          ConfirmAppointment(i, b) /\ UNCHANGED otherVars
    \/ \E i \in AdminIds : DeleteAppointment(i) /\ UNCHANGED otherVars
    \/ GetStats /\ UNCHANGED otherVars

SpecAdmin == InitList /\ [][NextAdmin]_vars

----------------------------------------------------------------------------
(* Properties of the booking endpoint (SpecBooking) *)

Range(s) == {s[k] : k \in 1..Len(s)}
Sends(s) == SelectSeq(s, LAMBDA e : e.ev = "send")
Failed(s) == \E k \in 1..Len(s) : s[k].ev = "send" /\ s[k].out = "failed"

(* C1: every appointment stored by the public Create has status pending    *)
(* and priority medium, whatever the body carries, and its preferredDate   *)
(* is not before the server-local calendar day of its creation.            *)
(* (Under SpecBooking stored appointments are exactly the created ones.)   *)
C1_CreatedPendingNotPast ==
    \A i \in DOMAIN appointments :
        LET a == appointments[i]
        IN  /\ a.status = "pending"
            /\ a.priority = "medium"
            /\ IsSet(a.createdAt)
            /\ LocalDay(a.preferredDate, tz) >= LocalDay(Val(a.createdAt), tz)

(* an appointment created for the very day of its creation, on a server    *)
(* whose zone is not UTC and whose clock has advanced                      *)
C1_Witness ==
    /\ res = Response("create", 201, nextId)
    /\ nextId \in DOMAIN appointments
    /\ tz # 0
    /\ now > 0
    /\ Val(appointments[nextId].createdAt) = now
    /\ LocalDay(appointments[nextId].preferredDate, tz) = LocalDay(now, tz)

(* C9: in appointment Create the record is saved before any notification   *)
(* is attempted, then exactly two sends are attempted, patient             *)
(* acknowledgement first and admin alert second, the second also after a   *)
(* failed first; whatever the outcomes, the record is stored and the       *)
(* response is 201.                                                        *)
C9_SaveThenTwoBestEffortSends ==
    res.op = "create" =>
        /\ \A k \in 1..Len(log) :
              log[k].ev = "send" => \E j \in 1..(k - 1) : log[j] = Saved
        /\ Saved \in Range(log) =>
              /\ Len(Sends(log)) = 2
              /\ Sends(log)[1].arg = "ack"
              /\ Sends(log)[2].arg = "admin"
              /\ res.code = 201
              /\ res.id \in DOMAIN appointments

(* both sends failed, the admin alert after the failed acknowledgement *)
C9_Witness ==
    /\ res = Response("create", 201, nextId)
    /\ nextId \in DOMAIN appointments
    /\ Len(Sends(log)) = 2
    /\ Sends(log)[1] = SendEv("ack", "failed")
    /\ Sends(log)[2] = SendEv("admin", "failed")

----------------------------------------------------------------------------
(* Properties of the appointment lifecycle (Spec) *)

(* the request i, b is an Update that was answered with 200 *)
Updated(i, b) ==
    /\ res' = Response("update", 200, i)
    /\ i \in DOMAIN appointments
    /\ UpdateAppointment(i, b)

CarriesSlot(b) == b.confirmedDate.k # Undefined \/ b.confirmedTime # Undefined

(* C2: an Update that changes the status to confirmed while confirmedDate  *)
(* and confirmedTime are unset copies both from preferredDate and          *)
(* preferredTime; when both are already set, the status change leaves      *)
(* them as they are (the stored values, or the values the same request     *)
(* writes).                                                                *)
C2_ConfirmFillsUnsetSlot ==
    [][\A i \in Ids, b \in UpdateBodies :
        (b.status = "confirmed" /\ Updated(i, b)
            /\ appointments[i].status # "confirmed") =>
          LET old == appointments[i]
              new == appointments'[i]
          IN  /\ (~IsSet(old.confirmedDate) /\ ~IsSet(old.confirmedTime)
                    /\ ~CarriesSlot(b)) =>
                    /\ new.confirmedDate = Some(old.preferredDate)
                    /\ new.confirmedTime = Some(old.preferredTime)
              /\ (IsSet(old.confirmedDate) /\ IsSet(old.confirmedTime)) =>
                    /\ new.confirmedDate =
                          IF b.confirmedDate.k # Undefined
                          THEN Some(NewDate(b.confirmedDate)) ELSE old.confirmedDate
                    /\ new.confirmedTime =
                          IF b.confirmedTime # Undefined
                          THEN Some(b.confirmedTime) ELSE old.confirmedTime
       ]_vars

(* an Update has just changed the status to confirmed and the hook filled  *)
(* the confirmed slot from the preferred one                               *)
C2_Witness ==
    /\ res.op = "update" /\ res.code = 200
    /\ res.id \in DOMAIN appointments
    /\ Ev("hook", "confirmed", "") \in Range(log)
    /\ appointments[res.id].status = "confirmed"
    /\ appointments[res.id].confirmedDate = Some(appointments[res.id].preferredDate)
    /\ appointments[res.id].confirmedTime = Some(appointments[res.id].preferredTime)

(* C3: cancelledAt is stamped exactly once: the first Update that sets the *)
(* status to cancelled sets it (to the time of that request), and no later *)
(* operation on the stored appointment changes it.                         *)
C3_CancelledAtStampedOnce ==
    [][/\ \A i \in Ids, b \in UpdateBodies :
            (b.status = "cancelled" /\ Updated(i, b)
                /\ ~IsSet(appointments[i].cancelledAt)) =>
              appointments'[i].cancelledAt = Some(now)
       /\ \A i \in DOMAIN appointments \cap DOMAIN appointments' :
            IsSet(appointments[i].cancelledAt) =>
              appointments'[i].cancelledAt = appointments[i].cancelledAt
       /\ \A i \in DOMAIN appointments' :
            appointments'[i].status = "cancelled" => IsSet(appointments'[i].cancelledAt)
      ]_vars

(* an appointment has re-entered cancelled at a later time than its stamp *)
C3_Witness ==
    /\ res.op = "update" /\ res.code = 200
    /\ res.id \in DOMAIN appointments
    /\ Ev("modified", "status", "") \in Range(log)
    /\ Ev("hook", "cancelled", "") \notin Range(log)
    /\ appointments[res.id].status = "cancelled"
    /\ IsSet(appointments[res.id].cancelledAt)
    /\ Val(appointments[res.id].cancelledAt) < now

C24_CompletedFillsActualSlot ==
    [][\A i \in Ids, b \in UpdateBodies :
        (/\ b.status = "completed"
         /\ i \in DOMAIN appointments
         /\ appointments[i].status # "completed"
         /\ Updated(i, b)) =>
            LET old == appointments[i]
                new == appointments'[i]
            IN  IF ~IsSet(old.actualDate)
                THEN /\ new.actualDate = IF IsSet(new.confirmedDate)
                                         THEN new.confirmedDate
                                         ELSE Some(new.preferredDate)
                     /\ new.actualTime = IF IsSet(new.confirmedTime)
                                         THEN new.confirmedTime
                                         ELSE Some(new.preferredTime)
                ELSE /\ new.actualDate = old.actualDate
                     /\ new.actualTime = old.actualTime
      ]_vars

(* an appointment with a confirmed date and no confirmed time was          *)
(* completed: the date is the confirmed one, the time the preferred one    *)
C24_Witness ==
    /\ res.op = "update" /\ res.code = 200
    /\ res.id \in DOMAIN appointments
    /\ Ev("hook", "completed", "") \in Range(log)
    /\ LET a == appointments[res.id]
       IN  /\ a.status = "completed"
           /\ IsSet(a.confirmedDate) /\ ~IsSet(a.confirmedTime)
           /\ a.confirmedDate # Some(a.preferredDate)
           /\ a.actualDate = a.confirmedDate
           /\ a.actualTime = Some(a.preferredTime)

(* appointment i is stored with a confirmed date or a confirmed time *)
HasConfirmedSlot(i) ==
    /\ i \in DOMAIN appointments
    /\ IsSet(appointments[i].confirmedDate) \/ IsSet(appointments[i].confirmedTime)

IsConfirmed(i) == i \in DOMAIN appointments /\ appointments[i].status = "confirmed"

(* C25: an appointment that has a confirmedDate or a confirmedTime has the *)
(* status confirmed or had it before.  Under SpecConfirming no request     *)
(* takes the status confirmed away from an appointment, so there an        *)
(* appointment that had the status has it, and the claim is: a stored      *)
(* appointment with a confirmed date or time has the status confirmed      *)
C25_ConfirmedSlotOnlyOnceConfirmed ==
    \A i \in Ids : HasConfirmedSlot(i) => IsConfirmed(i)

(* no step of SpecConfirming takes the status confirmed away *)
C25_StaysConfirmed ==
    [][\A i \in Ids : (IsConfirmed(i) /\ i \in DOMAIN appointments') => IsConfirmed(i)']_vars

----------------------------------------------------------------------------
(* Properties of request validation (SpecIntake) *)

OutOf(n, min, max) == n < min \/ n > max

(* the constraints on a booking: field lengths, enumerations, no past day *)
ViolatesBooking(b, t, z) ==
    \/ OutOf(b.name.core, NameMin, NameMax)
    \/ PhoneMatch(b.phone) /\ OutOf(PhoneLength(b.phone), PhoneMin, PhoneMax)
    \/ IsSet(b.message) /\ Val(b.message).core > MessageMax
    \/ b.treatmentType \notin validTreatmentTypes
    \/ b.preferredTime \notin validTimeSlots
    \/ isISO8601(b.preferredDate)
         /\ LocalDay(NewDate(b.preferredDate), z) < LocalDay(t, z)

(* the constraints on an update: enumerations, duration range, lengths *)
ViolatesUpdate(b) ==
    \/ b.status \notin Statuses \cup {Undefined}
    \/ b.priority \notin Priorities \cup {Undefined}
    \/ b.confirmedTime \notin validTimeSlots \cup {Undefined}
    \/ IsSet(b.duration) /\ OutOf(Val(b.duration), DurationMin, DurationMax)
    \/ IsSet(b.notes) /\ Val(b.notes).core > NotesMax
    \/ IsSet(b.assignedTo) /\ Val(b.assignedTo).core > AssignedToMax
    \/ IsSet(b.cancelledReason) /\ Val(b.cancelledReason).core > CancelledReasonMax

(* the constraints on a contact message: field lengths *)
ViolatesContact(b) ==
    \/ OutOf(b.name.core, NameMin, NameMax)
    \/ OutOf(b.subject.core, SubjectMin, SubjectMax)
    \/ OutOf(b.message.core, ContactMessageMin, ContactMessageMax)

Untouched ==
    /\ appointments' = appointments
    /\ nextId' = nextId
    /\ contacts' = contacts
    /\ log' = <<>>

(* C10: a create or update request that violates a validation constraint   *)
(* (a field length, an enumeration, a preferredDate on a past day, a       *)
(* duration out of range) is answered with 400 and has no effect: no       *)
(* record is created or changed and no send is attempted.                  *)
C10_InvalidRequestRejectedFirst ==
    [][/\ res'.op = "create" =>
            \A b \in CreateBodies :
                (ViolatesBooking(b, now, tz) /\ CreateAppointment(b)) =>
                    (res'.code = 400 /\ Untouched)
       /\ res'.op = "update" =>
            \A i \in Ids, b \in UpdateBodies :
                (ViolatesUpdate(b) /\ UpdateAppointment(i, b)) =>
                    (res'.code = 400 /\ Untouched)
       /\ res'.op = "contact" =>
            \A b \in ContactBodies :
                (ViolatesContact(b) /\ CreateContact(b)) =>
                    (res'.code = 400 /\ Untouched)
      ]_vars

(* an Update with an invalid parameter was refused while the appointment   *)
(* it names is stored, after a contact was stored                          *)
C10_Witness ==
    /\ res.op = "update" /\ res.code = 400
    /\ res.id \in DOMAIN appointments
    /\ appointments[res.id].status = "pending"
    /\ Len(contacts) > 0
    /\ log = <<>>

(* the request i, b is a Confirm that was answered with 200 *)
Confirmed(i, b) ==
    /\ res' = Response("confirm", 200, i)
    /\ i \in DOMAIN appointments
    /\ ConfirmAppointment(i, b)

(* C12: after a successful Confirm of a stored appointment, whatever its   *)
(* previous status, the stored status is confirmed, a confirmedDate or     *)
(* confirmedTime given in the request is the stored value of that field,   *)
(* and a field not given and not yet set is filled from preferredDate or   *)
(* preferredTime.                                                          *)
C12_ConfirmStoresGivenSlot ==
    [][\A i \in Ids, b \in ConfirmBodies :
        Confirmed(i, b) =>
          LET old == appointments[i]
              new == appointments'[i]
          IN  /\ new.status = "confirmed"
              /\ b.confirmedDate.k # Undefined =>
                    new.confirmedDate = Some(NewDate(b.confirmedDate))
              /\ b.confirmedTime # Undefined =>
                    new.confirmedTime = Some(b.confirmedTime)
              /\ (b.confirmedDate.k = Undefined /\ ~IsSet(old.confirmedDate)) =>
                    new.confirmedDate = Some(old.preferredDate)
              /\ (b.confirmedTime = Undefined /\ ~IsSet(old.confirmedTime)) =>
                    new.confirmedTime = Some(old.preferredTime)
      ]_vars

(* C13: Confirm saves the confirmed appointment before it sends the        *)
(* confirmation e-mail; when that send fails the caller gets an error      *)
(* response and the appointment stays stored with status confirmed.        *)
C13_ConfirmSavesThenSends ==
    res.op = "confirm" =>
        /\ \A k \in 1..Len(log) :
              log[k].ev = "send" => \E j \in 1..(k - 1) : log[j] = Saved
        /\ Saved \in Range(log) =>
              /\ Len(Sends(log)) = 1
              /\ Sends(log)[1].arg = "confirmation"
              /\ res.id \in DOMAIN appointments
              /\ appointments[res.id].status = "confirmed"
              /\ res.code = 200 <=> ~Failed(log)
              /\ Failed(log) => res.code >= 400

(* the confirmation could not be sent for an appointment that was pending: *)
(* an error response, and the appointment is stored as confirmed           *)
C13_Witness ==
    /\ res.op = "confirm" /\ res.code >= 500
    /\ log = <<Ev("modified", "status", ""), Ev("hook", "confirmed", ""), Saved,
               SendEv("confirmation", "failed")>>
    /\ res.id \in DOMAIN appointments
    /\ appointments[res.id].status = "confirmed"

(* C14: every operation that changes a stored appointment's status to      *)
(* confirmed, Update with status = confirmed as well as Confirm, attempts  *)
(* to send the confirmation e-mail to the patient, and a failure of that   *)
(* send is not surfaced: the caller still gets the success response.       *)
C14_ConfirmedTriggersBestEffortSend ==
    [][\A i \in DOMAIN appointments \cap DOMAIN appointments' :
        (appointments[i].status # "confirmed"
            /\ appointments'[i].status = "confirmed") =>
          /\ \E k \in 1..Len(log') :
                log'[k].ev = "send" /\ log'[k].arg = "confirmation"
          /\ res'.code = 200
      ]_vars

(* C15 as stated: for every pair (s, t) of statuses an Update with         *)
(* status = t of a stored appointment whose status is s succeeds and       *)
(* leaves the stored status equal to t.                                    *)
C15_Original ==
    [][\A i \in Ids, b \in UpdateBodies :
        (/\ res'.op = "update"
         /\ b.status \in Statuses
         /\ appointmentUpdateValidation(b) = {}
         /\ i \in DOMAIN appointments) =>
            \/ /\ res'.code = 200
               /\ i \in DOMAIN appointments'
               /\ appointments'[i].status = b.status
            \/ ~UpdateAppointment(i, b)
      ]_vars

(* C15: no status transition is rejected because of the current status:    *)
(* for every pair (s, t) of statuses a well-formed Update with status = t  *)
(* of a stored appointment whose status is s, and whose preferredDate is   *)
(* not before today, succeeds and leaves the stored status equal to t.     *)
C15_NoTransitionGuard ==
    [][\A i \in Ids, b \in UpdateBodies :
        (/\ res'.op = "update"
         /\ b.status \in Statuses
         /\ appointmentUpdateValidation(b) = {}
         /\ i \in DOMAIN appointments
         /\ PreferredDateValidator(appointments[i].preferredDate, now, tz)) =>
            \/ /\ res'.code = 200
               /\ i \in DOMAIN appointments'
               /\ appointments'[i].status = b.status
            \/ ~UpdateAppointment(i, b)
      ]_vars

(* a completed appointment has been set back to pending *)
C15_Witness ==
    /\ res.op = "update" /\ res.code = 200
    /\ res.id \in DOMAIN appointments
    /\ appointments[res.id].status = "pending"
    /\ IsSet(appointments[res.id].actualDate)
    /\ Ev("modified", "status", "") \in Range(log)

(* the fields of a stored appointment that no Update writes *)
UpdateFrame(doc) ==
    [name |-> doc.name, email |-> doc.email, phone |-> doc.phone,
     treatmentType |-> doc.treatmentType, preferredDate |-> doc.preferredDate,
     preferredTime |-> doc.preferredTime, message |-> doc.message,
     reminderSent |-> doc.reminderSent]

(* C16: an Update, whatever its body carries, leaves name, email, phone,   *)
(* treatmentType, preferredDate, preferredTime, message and reminderSent   *)
(* of the stored appointment as they were *)
C16_UpdateKeepsBookingFields ==
    [][\A i \in Ids, b \in UpdateBodies :
        (/\ res'.op = "update"
         /\ i \in DOMAIN appointments) =>
            \/ /\ i \in DOMAIN appointments'
               /\ UpdateFrame(appointments'[i]) = UpdateFrame(appointments[i])
            \/ ~UpdateAppointment(i, b)
      ]_vars

(* an Update has changed status and priority and the booking fields are    *)
(* none of the values its body carried *)
C16_Witness ==
    /\ res.op = "update" /\ res.code = 200
    /\ res.id \in DOMAIN appointments
    /\ appointments[res.id].status = "confirmed"
    /\ appointments[res.id].priority = "high"
    /\ appointments[res.id].preferredTime # BookingFieldsUpdate.preferredTime
    /\ appointments[res.id].phone # BookingFieldsUpdate.phone
    /\ appointments[res.id].reminderSent # Val(BookingFieldsUpdate.reminderSent)

----------------------------------------------------------------------------
(* Properties of the administrative endpoints (SpecAdmin) *)

(* the step is a well-formed Get, Update, Delete or Confirm of id i *)
Looked(i) ==
    \/ GetAppointment(i)
    \/ DeleteAppointment(i)
    \/ \E b \in AdminUpdateBodies :
          appointmentUpdateValidation(b) = {} /\ UpdateAppointment(i, b)
    \/ \E b \in AdminConfirmBodies :
          confirmValidation(b) = {} /\ ConfirmAppointment(i, b)

(* the ids the store has issued and no longer holds *)
Deleted == (1..nextId) \ DOMAIN appointments

(* C17: a well-formed Get, Update, Delete or Confirm of an id that is not   *)
(* stored answers 404, changes no record and attempts no notification; a   *)
(* successful Delete removes exactly the record of its id; and an id that  *)
(* was deleted is never stored again, so every later request for it is one *)
(* for an id that is not stored *)
C17_AbsentIdNotFound ==
    [][/\ \A i \in AdminIds :
            (/\ res'.id = i
             /\ res'.op \in {"get", "update", "delete", "confirm"}
             /\ i \notin DOMAIN appointments) =>
                \/ /\ res'.code = 404
                   /\ appointments' = appointments
                   /\ Sends(log') = <<>>
                \/ ~Looked(i)
       /\ \A i \in AdminIds :
            (/\ res' = Response("delete", 200, i)
             /\ DeleteAppointment(i)) =>
                /\ DOMAIN appointments' = DOMAIN appointments \ {i}
                /\ \A j \in DOMAIN appointments' : appointments'[j] = appointments[j]
       /\ Deleted \subseteq Deleted'
      ]_vars

(* the appointment with id 1 was deleted, a Create stored a new one under  *)
(* a new id, and a Confirm of id 1 was answered 404 *)
C17_Witness ==
    /\ res = Response("confirm", 404, 1)
    /\ 1 \in Deleted
    /\ \E j \in DOMAIN appointments : appointments[j].createdAt = Some(now)

(* the name of the count of a status or a priority in the Stats response *)
StatKey(v) ==
    CASE v = "no-show" -> "noShow"
      [] v = "high" -> "highPriority"
      [] v = "medium" -> "mediumPriority"
      [] v = "low" -> "lowPriority"
      [] OTHER -> v

RECURSIVE SumOver(_, _)
SumOver(data, keys) ==
    IF keys = {} THEN 0
    ELSE LET k == CHOOSE x \in keys : TRUE
         IN  data[k] + SumOver(data, keys \ {k})

(* C18: a Stats response carries total = the number of stored appointments, *)
(* for each status and each priority the number of stored appointments     *)
(* that have it, the five status counts and the three priority counts each *)
(* adding up to total, and nothing but zeros for an empty store. (No       *)
(* request changes the store without replacing the response.)              *)
C18_StatsCountStore ==
    res.op = "stats" =>
        /\ res.code = 200
        /\ res.data.total = Cardinality(DOMAIN appointments)
        /\ \A s \in Statuses :
              res.data[StatKey(s)] =
                  Cardinality({i \in DOMAIN appointments : appointments[i].status = s})
        /\ \A p \in Priorities :
              res.data[StatKey(p)] =
                  Cardinality({i \in DOMAIN appointments : appointments[i].priority = p})
        /\ SumOver(res.data, {StatKey(s) : s \in Statuses}) = res.data.total
        /\ SumOver(res.data, {StatKey(p) : p \in Priorities}) = res.data.total
        /\ (DOMAIN appointments = {} => res.data = EmptyStats)

(* Stats over a store of three appointments of three statuses and two      *)
(* priorities *)
C18_Witness ==
    /\ res.op = "stats"
    /\ res.data.total = MaxDocs
    /\ res.data.cancelled = 1 /\ res.data.noShow = 1 /\ res.data.completed = 1
    /\ res.data.highPriority = 1 /\ res.data.lowPriority = 1

(* Stats over an empty store *)
C18_WitnessEmpty ==
    /\ res.op = "stats"
    /\ appointments = <<>>
    /\ nextId > 0

----------------------------------------------------------------------------
(* Properties of the subscription endpoint (SpecSubscriber) *)

Stored(email) ==
    {k \in 1..Len(subscribers) : subscribers[k].email = lowercase(normalizeEmail(email))}

(* the last request subscribed the address, or found it subscribed *)
JustSubscribed(email) ==
    /\ res.op = "subscribe" /\ res.code \in {200, 201}
    /\ log # <<>> /\ log[1].arg = normalizeEmail(email)

(* C5: when a well-formed subscribe request follows a call that subscribed *)
(* the same e-mail, exactly one stored subscriber has that e-mail          *)
(* afterwards; the second call is answered with success (200), not with a  *)
(* duplicate error, and stores nothing.  No two stored subscribers ever    *)
(* share an e-mail.                                                        *)
C5_SubscribeIdempotent ==
    [][/\ \A b \in SubscribeBodies :
            (/\ JustSubscribed(b.email)
             /\ subscribeValidation(b) = {}
             /\ Subscribe(b)) =>
                /\ res'.code = 200
                /\ subscribers' = subscribers
                /\ Cardinality(Stored(b.email)) = 1
       /\ \A j, k \in 1..Len(subscribers') :
            subscribers'[j].email = subscribers'[k].email => j = k
      ]_vars

(* the same address was subscribed and then subscribed again, typed in     *)
(* another case the second time                                            *)
C5_Witness ==
    /\ res = Response("subscribe", 200, NoId)
    /\ log = <<Ev("findOne", "ann@example.com", "found")>>
    /\ Cardinality(Stored("Ann@Example.com")) = 1
    /\ Len(subscribers) > 1

(* C19: a subscribe call attempts at most one confirmation e-mail, and     *)
(* only when it stores a new subscriber, whose e-mail no stored subscriber *)
(* had before; a call for a subscribed e-mail attempts none; the call that *)
(* stores the subscriber is answered 201 also when the send fails; and no  *)
(* call removes a stored subscriber                                        *)
C19_ConfirmationOnlyOnCreate ==
    [][LET n == Len(subscribers)
           created == Len(subscribers') = n + 1
       IN  (served' = served + 1 /\ res'.op = "subscribe") =>
              /\ Len(Sends(log')) <= 1
              /\ Sends(log') # <<>> =>
                    /\ created
                    /\ Sends(log')[1].arg = "subscription"
                    /\ \A k \in 1..n : subscribers[k].email # subscribers'[n + 1].email
              /\ res'.code = 200 => Sends(log') = <<>> /\ subscribers' = subscribers
              /\ created <=> res'.code = 201
              /\ Len(subscribers') >= n
              /\ SubSeq(subscribers', 1, n) = subscribers
      ]_vars

(* a second address was subscribed, the send of its confirmation failed,   *)
(* and the call was answered 201 *)
C19_Witness ==
    /\ res = Response("subscribe", 201, NoId)
    /\ Failed(log)
    /\ Len(subscribers) = 2

(* the place of a time slot in the clinic's day *)
SlotOfDay(slot) ==
    CASE slot = "9:00 AM" -> 1 [] slot = "10:00 AM" -> 2 [] slot = "11:00 AM" -> 3
      [] slot = "12:00 PM" -> 4 [] slot = "2:00 PM" -> 5 [] slot = "3:00 PM" -> 6
      [] slot = "4:00 PM" -> 7 [] slot = "5:00 PM" -> 8 [] slot = "6:00 PM" -> 9

(* C23: the appointment List returns its records by preferredDate          *)
(* ascending and, on one date, by the time of day of preferredTime         *)
(* ascending: 9:00 AM never after 10:00 AM or 2:00 PM of the same date     *)
C23_ListedByDateThenTimeOfDay ==
    (listRes.op = "appointment" /\ listRes.code = 200) =>
        \A k, l \in 1..Len(listRes.items) :
            k < l =>
                \/ listRes.items[k].preferredDate < listRes.items[l].preferredDate
                \/ /\ listRes.items[k].preferredDate = listRes.items[l].preferredDate
                   /\ SlotOfDay(listRes.items[k].preferredTime)
                         <= SlotOfDay(listRes.items[l].preferredTime)

(* the date order alone, and the order of the slot strings within a date *)
C23_ListedByDateThenSlotString ==
    (listRes.op = "appointment" /\ listRes.code = 200) =>
        \A k, l \in 1..Len(listRes.items) :
            k < l =>
                \/ listRes.items[k].preferredDate < listRes.items[l].preferredDate
                \/ /\ listRes.items[k].preferredDate = listRes.items[l].preferredDate
                   /\ SlotRank(listRes.items[k].preferredTime)
                         <= SlotRank(listRes.items[l].preferredTime)

(* C22: publishedAt follows the status of every stored blog: no draft has  *)
(* publishedAt set and every published blog has it set                     *)
C22_PublishedAtFollowsStatus ==
    \A i \in DOMAIN blogs :
        /\ blogs[i].status = "draft" => ~IsSet(blogs[i].publishedAt)
        /\ blogs[i].status = "published" => IsSet(blogs[i].publishedAt)

(* the half of C22 about drafts alone *)
C22_NoDraftPublished ==
    \A i \in DOMAIN blogs :
        blogs[i].status = "draft" => ~IsSet(blogs[i].publishedAt)

----------------------------------------------------------------------------
(* Properties of the blog endpoints under interleaving (SpecBlogRace) *)

UniqueSlugs ==
    \A i, j \in DOMAIN blogs : blogs[i].slug = blogs[j].slug => i = j

(* a stored blog other than i has the slug *)
SlugUsed(slug, i) == \E j \in DOMAIN blogs : j # i /\ blogs[j].slug = slug

(* C21: no two stored blogs have the same slug, before and after every     *)
(* step of every interleaving of the blog requests; and the insert of a    *)
(* Create, or an Update, whose slug another stored blog has changes no     *)
(* stored blog                                                             *)
C21_SlugsUnique ==
    [][/\ UniqueSlugs /\ UniqueSlugs'
       /\ \A r \in inflight :
            (/\ res'.op = "blog.create"
             /\ SlugUsed(lowercaseSlug(trimSlug(r.b.slug)), NoId)
             /\ CreateBlogInsert(r)) => blogs' = blogs
       /\ \A i \in BlogIds, b \in RaceBlogBodies :
            (/\ res'.op = "blog.update"
             /\ i \in DOMAIN blogs
             /\ createValidation(b) = {}
             /\ SlugUsed(lowercaseSlug(trimSlug(b.slug)), i)
             /\ UpdateBlog(i, b)) => blogs' = blogs
      ]_vars

(* two Creates of one slug both found it free; the insert of the second    *)
(* was rejected by the index and the slug is stored once *)
C21_Witness ==
    /\ res = Response("blog.create", UnhandledStatus, NoId)
    /\ log = <<Ev("create", "acne-care", "rejected")>>
    /\ Cardinality({i \in DOMAIN blogs : blogs[i].slug = "acne-care"}) = 1

(* C28: in every state reached through Create, Update, Confirm and Delete *)
(* a stored appointment with the status confirmed has a confirmedDate and  *)
(* a confirmedTime                                                         *)
C28_ConfirmedHasSlot ==
    \A i \in DOMAIN appointments :
        appointments[i].status = "confirmed" =>
            IsSet(appointments[i].confirmedDate) /\ IsSet(appointments[i].confirmedTime)

(* the part of C28 that holds: an appointment with the status confirmed    *)
(* has a confirmedDate or a request body set its status without one: the   *)
(* hook fills the date and time together when the date is missing          *)
C28_ConfirmedFilledTogether ==
    [][\A i \in Ids, b \in UpdateBodies :
          (/\ res'.op = "update" /\ res'.code = 200
           /\ i \in DOMAIN appointments
           /\ appointments[i].status # "confirmed"
           /\ b.status = "confirmed" /\ b.confirmedDate = NoDate
           /\ ~IsSet(appointments[i].confirmedDate)) =>
              \/ ~UpdateAppointment(i, b)
              \/ /\ appointments'[i].confirmedDate = Some(appointments[i].preferredDate)
                 /\ appointments'[i].confirmedTime = Some(appointments[i].preferredTime)]_vars

----------------------------------------------------------------------------
(* Properties of interleaved Update and Confirm (SpecAppointmentRace) *)

(* the record a request leaves when it runs alone on record doc at time t: *)
(* doc itself when save() rejects                                          *)
Alone(op, b, doc, t) ==
    LET r == Loaded(0, op, 0, b, doc)
    IN  IF AppointmentSchemaErrors(Assigned(r), t, tz) # {} THEN doc
        ELSE Hooked(r, t)

(* C29: an Update and a Confirm of one appointment that both loaded the    *)
(* same record leave, whatever the order of their saves, the record that   *)
(* running one after the other leaves, in one order or the other.  Stated  *)
(* on the save of the Update that follows the save of the Confirm, the     *)
(* Confirm still awaiting its send                                         *)
C29_UpdateConfirmSerializable ==
    [][\A r, q \in inflight :
          (/\ r.op = "update" /\ q.op = "confirm" /\ q.phase = "saved"
           /\ r.id = q.id /\ r.doc = q.doc
           /\ r.id \in DOMAIN appointments
           /\ appointments[r.id] = Hooked(q, now)
           /\ SaveUpdate(r)
           /\ res'.code = 200) =>
              \/ appointments'[r.id] = Alone("update", r.b, Alone("confirm", q.b, r.doc, now), now)
              \/ appointments'[r.id] = Alone("confirm", q.b, Alone("update", r.b, r.doc, now), now)]_vars


(* request r, past its lookup, has run beside another request for the same *)
(* address: that request is between its own lookup and save, or has saved  *)
(* since r looked                                                          *)
Raced(r) ==
    \/ \E q \in inflight \ {r} :
          q.op = "subscribe" /\ normalizeEmail(q.b.email) = normalizeEmail(r.b.email)
    \/ Stored(r.b.email) # {}

(* C26: when two subscribe requests for one address interleave between the *)
(* lookup and the save, the save of each is answered with success, not     *)
(* with a duplicate error, and the address is stored exactly once          *)
C26_ConcurrentSubscribeSucceeds ==
    [][\A r \in inflight :
          (r.op = "subscribe" /\ Raced(r) /\ SubscribeSave(r)) =>
              /\ res'.code \in {200, 201}
              /\ Cardinality(Stored(r.b.email)') = 1]_vars

(* the part of C26 that holds: whatever the interleaving, no address is    *)
(* stored twice, and a save that the index rejects stores nothing          *)
C26_OneRecordStored ==
    [][/\ \A e \in EmailSamples : Cardinality(Stored(e)') <= 1
       /\ \A r \in inflight :
             (r.op = "subscribe" /\ Stored(r.b.email) # {} /\ SubscribeSave(r)) =>
                 /\ subscribers' = subscribers
                 /\ res'.code = UnhandledStatus]_vars

----------------------------------------------------------------------------
(* Properties of the store service and of shutdown (SpecStore) *)

(* this step is the process leaving through a signal handler *)
ExitsBySignal == db.proc = "running" /\ db'.proc = "exited"

(* C27: when SIGINT or SIGTERM arrives while the store connection is open, *)
(* the connection is closed when the process exits: whether the handler    *)
(* exits as soon as disconnect() returns or after mongoose.disconnect()    *)
(* has settled, the step that ends the process leaves the connection not   *)
(* open                                                                    *)
C27_ClosedBeforeExit ==
    [][ExitsBySignal =>
          /\ \A sig \in Signals :
                (db.conn = "open" /\ Disconnect(sig)) => db'.conn # "open"
          /\ \A c \in db.calls :
                (c.by \in Signals /\ c.open /\ DisconnectSettle(c)) =>
                    db'.conn # "open"]_vars

(* the part of C27 that holds: a signal that finds the flag set exits, if  *)
(* mongoose.disconnect() resolves, with the connection closed              *)
C27_ClosedWhenFlagged ==
    [][\A c \in db.calls :
          (/\ c.by \in Signals
           /\ DisconnectSettle(c)
           /\ db'.isConnected = FALSE /\ db'.proc = "exited" /\ db'.conn # db.conn) =>
              db'.conn = "closed"]_vars

(* C30: over every sequence of connect and disconnect calls and driver     *)
(* events the flag is true exactly when the connection is open; connect()  *)
(* while the flag is true and disconnect() while it is false change        *)
(* neither the flag nor the connection and await nothing; healthCheck()    *)
(* reports connected: true only when the flag is true                      *)
C30_FlagTracksConnection ==
    [][/\ db'.proc # "exited" => (db'.isConnected <=> db'.conn = "open")
       /\ \A by \in {"startup", "app"} :
             (db.isConnected /\ Connect(by)) =>
                 db' = [db EXCEPT !.made = db'.made]
       /\ \A by \in {"app"} \cup Signals :
             (~db.isConnected /\ Disconnect(by)) =>
                 db' = [db EXCEPT !.made = db'.made, !.proc = db'.proc]
       /\ (HealthCheck /\ db'.health.connected) => db.isConnected]_vars

(* the part of C30 that holds: the flag is true only while the connection  *)
(* is open, and the claims about connect(), disconnect() and healthCheck() *)
C30_FlagImpliesOpen ==
    [][/\ db'.isConnected => db'.conn = "open"
       /\ \A by \in {"startup", "app"} :
             (db.isConnected /\ Connect(by)) =>
                 db' = [db EXCEPT !.made = db'.made]
       /\ \A by \in {"app"} \cup Signals :
             (~db.isConnected /\ Disconnect(by)) =>
                 db' = [db EXCEPT !.made = db'.made, !.proc = db'.proc]
       /\ (HealthCheck /\ db'.health.connected) => db.isConnected]_vars

----------------------------------------------------------------------------
(* Properties of the notification sender (SpecSender) *)

(* C20: the sender's flag is set exactly when both credentials are set in  *)
(* the environment it was constructed in, and no step changes it; while it *)
(* is clear no send hands a message to the transport or raises an error:   *)
(* every send of a request is skipped, a request that saved is answered    *)
(* with success, and a well-formed contact Create and a well-formed        *)
(* Confirm of a stored appointment succeed                                 *)
C20_SenderEnabledIffConfigured ==
    [][/\ emailEnabled <=> (~Falsy(env.EMAIL_USER) /\ ~Falsy(env.EMAIL_PASS))
       /\ emailEnabled' = emailEnabled
       /\ (~emailEnabled /\ served' = served + 1) =>
             /\ \A k \in 1..Len(log') : log'[k].ev = "send" => log'[k].out = "skipped"
             /\ Saved \in Range(log') => res'.code \in {200, 201}
             /\ \A b \in ContactBodies :
                   (/\ res'.op = "contact"
                    /\ contactValidation(b) = {}
                    /\ CreateContact(b)) =>
                       /\ res'.code = 201
                       /\ Len(contacts') = Len(contacts) + 1
             /\ \A i \in Ids, b \in SenderConfirmBodies :
                   (/\ res'.op = "confirm"
                    /\ i \in DOMAIN appointments
                    /\ confirmValidation(b) = {}
                    /\ ConfirmAppointment(i, b)) =>
                       /\ res'.code = 200
                       /\ appointments'[i].status = "confirmed"
      ]_vars

(* only the password is missing: a contact was created and an appointment  *)
(* confirmed, and the confirmation e-mail was skipped *)
C20_Witness ==
    /\ ~Falsy(env.EMAIL_USER) /\ Falsy(env.EMAIL_PASS)
    /\ ~emailEnabled
    /\ Len(contacts) = 1
    /\ res = Response("confirm", 200, 1)
    /\ SendEv("confirmation", "skipped") \in Range(log)

----------------------------------------------------------------------------
(* Properties of the blog endpoints (SpecBlog) *)

(* C6: creating a blog whose slug is already used by a stored blog is      *)
(* answered with status 400, creates no record, and leaves the stored      *)
(* blogs, the one with that slug among them, unchanged.                    *)
C6_DuplicateSlugRejected ==
    [][\A b \in BlogBodies :
          (/\ res'.op = "blog.create"
           /\ \E j \in DOMAIN blogs : blogs[j].slug = trimSlug(b.slug)
           /\ CreateBlog(b)) =>
              /\ res'.code = 400
              /\ blogs' = blogs
              /\ nextId' = nextId
      ]_vars

(* a create was refused although its body was well formed: its slug was    *)
(* taken by a stored blog                                                  *)
C6_Witness ==
    /\ res = Response("blog.create", 400, NoId)
    /\ log = <<Ev("findOne", "acne-care", "found")>>
    /\ Cardinality({j \in DOMAIN blogs : blogs[j].slug = "acne-care"}) = 1

----------------------------------------------------------------------------
(* Properties of the list endpoints (SpecList) *)

Listed == listRes.code = 200
Pagination == Val(listRes.pagination)

(* C7 as stated: for every list endpoint and every accepted page and       *)
(* limit, itemsPerPage * (currentPage - 1) <= totalItems and the number of *)
(* returned items does not exceed itemsPerPage.                            *)
C7_Original ==
    Listed =>
       /\ Pagination.itemsPerPage * (Pagination.currentPage - 1) <= Pagination.totalItems
       /\ Len(listRes.items) <= Pagination.itemsPerPage

(* C7: for every list endpoint and every accepted page and limit the       *)
(* number of returned items never exceeds itemsPerPage, and                *)
(* itemsPerPage * (currentPage - 1) <= totalItems holds whenever           *)
(* currentPage is 1 or at most totalPages, in particular whenever the page *)
(* holds an item; for a page past the last one it need not hold.           *)
C7_PageWithinLimit ==
    Listed =>
       /\ Len(listRes.items) <= Pagination.itemsPerPage
       /\ (\/ Pagination.currentPage = 1
           \/ Pagination.currentPage <= Pagination.totalPages
           \/ listRes.items # <<>>) =>
             Pagination.itemsPerPage * (Pagination.currentPage - 1) <= Pagination.totalItems

(* a full page that is neither the first nor the last                      *)
C7_Witness ==
    /\ Listed
    /\ listRes.op = "subscriber"
    /\ Pagination.currentPage = 2
    /\ Len(listRes.items) = Pagination.itemsPerPage
    /\ Pagination.totalItems > Pagination.itemsPerPage * Pagination.currentPage

(* the page and the limit a request asks for, and the stored records its   *)
(* filters match                                                           *)
AskedPage == IF listRes.q.page = Undefined THEN PageDefault ELSE IntValue[listRes.q.page]
AskedLimit == IF listRes.q.limit = Undefined THEN LimitDefault ELSE IntValue[listRes.q.limit]
Matching ==
    CASE listRes.op = "appointment" -> AppointmentFilter(listRes.q)
      [] listRes.op = "contact" -> ContactFilter(listRes.q)
      [] listRes.op = "blog" -> BlogFilter(listRes.q)
      [] listRes.op = "subscriber" -> SubscriberFilter(listRes.q)
PagesFor(n, l) == CHOOSE c \in 0..n : c * l >= n /\ \A d \in 0..n : d * l >= n => c <= d
Least(a, b) == IF a < b THEN a ELSE b
Most(a, b) == IF a > b THEN a ELSE b

(* C8: a list request with page p >= 1 and limit l in 1..100 over n        *)
(* matching records reports totalItems = n and totalPages = ceil(n / l),   *)
(* hasNextPage iff p < totalPages, hasPrevPage iff p > 1, and returns      *)
(* min(l, max(0, n - (p-1)*l)) items; a page past the last one is empty    *)
(* with hasNextPage false and hasPrevPage true.                            *)
C8_PaginationArithmetic ==
    Listed =>
       LET p == AskedPage
           l == AskedLimit
           n == Cardinality(Matching)
       IN  /\ p >= 1 /\ l \in 1..LimitMax
           /\ Pagination.currentPage = p
           /\ Pagination.itemsPerPage = l
           /\ Pagination.totalItems = n
           /\ Pagination.totalPages = PagesFor(n, l)
           /\ Pagination.hasNextPage <=> p < PagesFor(n, l)
           /\ Pagination.hasPrevPage <=> p > 1
           /\ Len(listRes.items) = Least(l, Most(0, n - (p - 1) * l))
           /\ p > Most(PagesFor(n, l), 1) =>
                 /\ listRes.items = <<>>
                 /\ ~Pagination.hasNextPage
                 /\ Pagination.hasPrevPage

(* page 2 with limit 5 of the cancelled appointments when three are stored *)
C8_Witness ==
    /\ Listed
    /\ listRes.op = "appointment"
    /\ listRes.q.status = "cancelled" /\ listRes.q.page = "2" /\ listRes.q.limit = "5"
    /\ Pagination.totalItems = 3
    /\ listRes.items = <<>>
    /\ ~Pagination.hasNextPage /\ Pagination.hasPrevPage

----------------------------------------------------------------------------
(* Properties of the contact form (SpecContact) *)

(* C11: in contact Create the record is saved first, then the user         *)
(* confirmation and the admin alert are sent in that order without         *)
(* isolation: when a send fails the request ends in an error and not in    *)
(* 201, no admin alert is attempted after a failed user confirmation, and  *)
(* the contact saved before the failure stays stored.                      *)
C11_ContactSendsNotIsolated ==
    [][/\ \A b \in ContactBodies :
            (/\ res'.op = "contact"
             /\ contactValidation(b) = {}
             /\ CreateContact(b)) =>
                /\ Len(contacts') = Len(contacts) + 1
                /\ res'.id = Len(contacts')
                /\ log'[1] = Saved
                /\ Sends(log') = Tail(log')
                /\ Sends(log')[1].arg = "confirmation"
                /\ Len(Sends(log')) = 2 => Sends(log')[2].arg = "admin"
                /\ Sends(log')[1].out = "failed" => Len(Sends(log')) = 1
                /\ Sends(log')[1].out # "failed" => Len(Sends(log')) = 2
                /\ Failed(log') => res'.code # 201 /\ res'.code >= 400
                /\ ~Failed(log') => res'.code = 201
       /\ Len(contacts') >= Len(contacts)
       /\ \A k \in 1..Len(contacts) : contacts'[k] = contacts[k]
      ]_vars

(* the user confirmation failed: no admin alert, an error response, and    *)
(* the contact is stored                                                   *)
C11_Witness ==
    /\ res.op = "contact" /\ res.code >= 500
    /\ log = <<Saved, SendEv("confirmation", "failed")>>
    /\ res.id = Len(contacts)
    /\ Len(contacts) > 1

====
